---- MODULE Spec2Model ----
(***************************************************************************)
(* aichat-history: the chat-log normalization layer.                       *)
(*                                                                         *)
(* The backends are read-only decoders, so the state of the model is the   *)
(* on-disk content they read (the log of a log-stream session, the keyed   *)
(* store of a workspace) together with the last canonical operation that   *)
(* was called and its outcome: the value it returned or the exception it   *)
(* let through.                                                            *)
(*                                                                         *)
(* Strings are sequences of one-character strings, so that strip, join,    *)
(* split and slicing are computed as Python computes them.  JSON values    *)
(* are tagged pairs <<kind, payload>>; an object is a function of its keys. *)
(***************************************************************************)
EXTENDS Integers, Sequences, FiniteSets, TLC

VARIABLES
    log,        \* lines of <claude root>/p1/s1.jsonl, in file order
    kv,         \* ItemTable of <cursor root>/w1/state.vscdb: key -> decoded value
    chatdata,   \* the chat-data row of the global state.vscdb of the keyed store
    index,      \* <claude root>/p1/sessions-index.json
    sibling,    \* <claude root>/p2/sessions-index.json, or no directory p2
    conns,      \* connections to a state.vscdb that were opened and not closed
    tree,       \* <opencode root>: the session file of p1 and the message files of ses1
    roots,      \* per backend: what constructing it and probing its storage root does
    providers,  \* server._providers: None, or the cached list of provider names
    detections, \* how often get_available_providers has run in this process
    requests,   \* how many requests the server has answered
    call,       \* the canonical operation called last, with its argument
    outcome     \* what it did: [exc, val]

\* what is on disk: no operation of a backend writes it
disk == <<log, index, sibling, kv, chatdata, tree>>

\* the registry of the server process and the roots it probes
registry == <<roots, providers, detections, requests>>

vars == <<log, index, sibling, kv, chatdata, tree, conns, roots, providers,
          detections, requests, call, outcome>>

\* ------------------------------------------------------------------ bounds

MaxLines == 2
MaxBlocks == 3
MaxGens == 2
MaxPrompts == 2
MaxBubbles == 2
MaxParts == 2
MaxMsgs == 2
MaxEntries == 2

\* connections left open at a time
MaxConns == 2

\* ----------------------------------------------------------------- strings

Whitespace == {" ", "\n", "\t"}

Min(a, b) == IF a <= b THEN a ELSE b

\* s[:n]
Take(s, n) == SubSeq(s, 1, Min(n, Len(s)))

\* s[n:]
Drop(s, n) == SubSeq(s, Min(n, Len(s)) + 1, Len(s))

RECURSIVE LStrip(_)
LStrip(s) ==
    IF s = <<>> THEN <<>>
    ELSE IF Head(s) \in Whitespace THEN LStrip(Tail(s)) ELSE s

RECURSIVE RStrip(_)
RStrip(s) ==
    IF s = <<>> THEN <<>>
    ELSE IF s[Len(s)] \in Whitespace THEN RStrip(SubSeq(s, 1, Len(s) - 1)) ELSE s

\* str.strip()
Strip(s) == RStrip(LStrip(s))

\* sep.join(parts)
RECURSIVE Join(_, _)
Join(parts, sep) ==
    IF parts = <<>> THEN <<>>
    ELSE IF Len(parts) = 1 THEN parts[1]
    ELSE parts[1] \o sep \o Join(Tail(parts), sep)

\* the first index of character c in s, 0 when there is none
RECURSIVE IndexOf(_, _, _)
IndexOf(s, c, from) ==
    IF from > Len(s) THEN 0
    ELSE IF s[from] = c THEN from ELSE IndexOf(s, c, from + 1)

\* str.split(sep, maxsplit) for a one-character separator
RECURSIVE Split(_, _, _)
Split(s, sep, maxsplit) ==
    LET i == IndexOf(s, sep, 1)
    IN IF maxsplit = 0 \/ i = 0 THEN <<s>>
       ELSE <<SubSeq(s, 1, i - 1)>> \o Split(Drop(s, i), sep, maxsplit - 1)

EndsWith(s, suffix) ==
    Len(s) >= Len(suffix) /\ SubSeq(s, Len(s) - Len(suffix) + 1, Len(s)) = suffix

\* string literals of the source, written out character by character
Lit(name) ==
    CASE name = "" -> <<>>
      [] name = "user" -> <<"u", "s", "e", "r">>
      [] name = "human" -> <<"h", "u", "m", "a", "n">>
      [] name = "assistant" -> <<"a", "s", "s", "i", "s", "t", "a", "n", "t">>
      [] name = "file-history-snapshot" ->
            <<"f", "i", "l", "e", "-", "h", "i", "s", "t", "o", "r", "y", "-",
              "s", "n", "a", "p", "s", "h", "o", "t">>
      [] name = "progress" -> <<"p", "r", "o", "g", "r", "e", "s", "s">>
      [] name = "system" -> <<"s", "y", "s", "t", "e", "m">>
      [] name = "summary" -> <<"s", "u", "m", "m", "a", "r", "y">>
      [] name = "queue-operation" ->
            <<"q", "u", "e", "u", "e", "-", "o", "p", "e", "r", "a", "t", "i", "o", "n">>
      [] name = "text" -> <<"t", "e", "x", "t">>
      [] name = "tool_use" -> <<"t", "o", "o", "l", "_", "u", "s", "e">>
      [] name = "tool_result" ->
            <<"t", "o", "o", "l", "_", "r", "e", "s", "u", "l", "t">>
      [] name = "thinking" -> <<"t", "h", "i", "n", "k", "i", "n", "g">>
      [] name = "image" -> <<"i", "m", "a", "g", "e">>
      [] name = "unknown" -> <<"u", "n", "k", "n", "o", "w", "n">>
      [] name = "[Image]" -> <<"[", "I", "m", "a", "g", "e", "]">>
      [] name = "(empty result)" ->
            <<"(", "e", "m", "p", "t", "y", " ", "r", "e", "s", "u", "l", "t", ")">>
      [] name = "..." -> <<".", ".", ".">>
      [] name = ": " -> <<":", " ">>
      [] name = "\n" -> <<"\n">>
      [] name = "Z" -> <<"Z">>
      [] name = "+00:00" -> <<"+", "0", "0", ":", "0", "0">>
      [] name = "claude" -> <<"c", "l", "a", "u", "d", "e">>
      [] name = "cursor" -> <<"c", "u", "r", "s", "o", "r">>
      [] name = "opencode" -> <<"o", "p", "e", "n", "c", "o", "d", "e">>
      [] name = "global" -> <<"g", "l", "o", "b", "a", "l">>
      [] name = "composer" -> <<"c", "o", "m", "p", "o", "s", "e", "r">>
      [] name = "p1" -> <<"p", "1">>
      [] name = "p2" -> <<"p", "2">>
      [] name = "s2" -> <<"s", "2">>
      [] name = "vscode" -> <<"v", "s", "c", "o", "d", "e">>
      [] name = "claude_code" -> <<"c", "l", "a", "u", "d", "e", "_", "c", "o", "d", "e">>
      [] name = "s1" -> <<"s", "1">>
      [] name = "w1" -> <<"w", "1">>
      [] name = "c1" -> <<"c", "1">>
      [] name = "c2" -> <<"c", "2">>
      [] name = "cmdk" -> <<"c", "m", "d", "k">>
      [] name = "Fix" -> <<"F", "i", "x">>
      [] name = "t1" -> <<"t", "1">>
      [] name = "t2" -> <<"t", "2">>
      [] name = "ai" -> <<"a", "i">>
      [] name = "tool" -> <<"t", "o", "o", "l">>
      [] name = "patch" -> <<"p", "a", "t", "c", "h">>
      [] name = "step-start" -> <<"s", "t", "e", "p", "-", "s", "t", "a", "r", "t">>
      [] name = "[Patch/Edit]" -> <<"[", "P", "a", "t", "c", "h", "/", "E", "d", "i", "t", "]">>
      [] name = "[Tool: " -> <<"[", "T", "o", "o", "l", ":", " ">>
      [] name = "]" -> <<"]">>
      [] name = " (" -> <<" ", "(">>
      [] name = ")]" -> <<")", "]">>
      [] name = ", " -> <<",", " ">>
      [] name = "=" -> <<"=">>
      [] name = "fence\n" -> <<"~", "~", "~", "\n">>
      [] name = "\nfence" -> <<"\n", "~", "~", "~">>
      [] name = "[" -> <<"[">>
      [] name = "mode: " -> <<"m", "o", "d", "e", ":", " ">>
      [] name = "finish: " -> <<"f", "i", "n", "i", "s", "h", ":", " ">>
      [] name = "code" -> <<"c", "o", "d", "e">>
      [] name = "stop" -> <<"s", "t", "o", "p">>
      [] name = "grep" -> <<"g", "r", "e", "p">>
      [] name = "pattern" -> <<"p", "a", "t", "t", "e", "r", "n">>
      [] name = "ses1" -> <<"s", "e", "s", "_", "1">>
      [] name = "m1" -> <<"m", "1">>
      [] name = "m2" -> <<"m", "2">>
      [] name = "m3" -> <<"m", "3">>
      [] name = "Chat" -> <<"C", "h", "a", "t">>
      [] name = "(global)" -> <<"(", "g", "l", "o", "b", "a", "l", ")">>
      [] name = "not available" -> <<"n", "o", "t", " ", "a", "v", "a", "i", "l", "a", "b", "l", "e">>
      [] name = "v1.0" -> <<"v", "1", ".", "0">>
      [] name = "Untitled" -> <<"U", "n", "t", "i", "t", "l", "e", "d">>
      [] name = "/w" -> <<"/", "w">>

\* -------------------------------------------------------------------- JSON

JNull == <<"null", 0>>
JNum(n) == <<"num", n>>
JBool(b) == <<"bool", b>>
JStr(s) == <<"str", s>>
JArr(a) == <<"arr", a>>
JObj(f) == <<"obj", f>>

\* {} : the function with no key
NoKeys == [x \in {} |-> JNull]
EmptyObj == JObj(NoKeys)

IsDict(j) == j[1] = "obj"
IsStr(j) == j[1] = "str"
IsList(j) == j[1] = "arr"

\* Python's truth value of a decoded JSON value
Truthy(j) ==
    CASE j[1] = "null" -> FALSE
      [] j[1] = "num" -> j[2] # 0
      [] j[1] = "bool" -> j[2]
      [] j[1] = "str" -> j[2] # <<>>
      [] j[1] = "arr" -> j[2] # <<>>
      [] j[1] = "obj" -> DOMAIN j[2] # {}

\* equality of two decoded values (the tag decides before the payloads meet)
JEq(a, b) == a[1] = b[1] /\ a[2] = b[2]

\* dict.get(key, default), for j a dict
Get(j, key, default) == IF key \in DOMAIN j[2] THEN j[2][key] ELSE default

\* ---------------------------------------------------------------- outcomes

Ok(val) == [exc |-> "none", val |-> val]
Raise(exc) == [exc |-> exc, val |-> <<>>]
Raised(r) == r.exc # "none"

None == <<"none", 0>>

\* self.get_base_path().is_dir() inside an operation of backend b
BaseIsDir(b) == roots[b] = "dir"

\* ------------------------------------------------------- canonical model

\* core.Message
Msg(role, content, timestamp, message_type, metadata) ==
    [role |-> role, content |-> content, timestamp |-> timestamp,
     message_type |-> message_type, metadata |-> metadata]

\* core.Session
Session(id, workspace_id, title, message_count, created, updated, source, project_path) ==
    [id |-> id, workspace_id |-> workspace_id, title |-> title,
     message_count |-> message_count, created |-> created, updated |-> updated,
     source |-> source, project_path |-> project_path]

\* session ids: segments joined by the separator
IdOf(segments) == Join(segments, <<":">>)

\* --------------------------------------------- log-stream decoder: helpers

DigitChars == <<"0", "1", "2", "3", "4", "5", "6", "7", "8", "9">>

IsDigit(c) == \E d \in 1..10 : DigitChars[d] = c

DigitVal(c) == (CHOOSE d \in 1..10 : DigitChars[d] = c) - 1

\* the number written by the digits s[i..j]
RECURSIVE NumAt(_, _, _)
NumAt(s, i, j) == IF j < i THEN 0 ELSE 10 * NumAt(s, i, j - 1) + DigitVal(s[j])

\* datetime.fromisoformat on YYYY-MM-DDTHH:MM:SS with an optional +00:00;
\* None stands for the ValueError that _parse_iso catches
FromIsoFormat(s) ==
    LET shape == /\ Len(s) \in {19, 25}
                 /\ \A i \in {1, 2, 3, 4, 6, 7, 9, 10, 12, 13, 15, 16, 18, 19} : IsDigit(s[i])
                 /\ s[5] = "-" /\ s[8] = "-" /\ s[11] = "T"
                 /\ s[14] = ":" /\ s[17] = ":"
                 /\ (Len(s) = 25 => SubSeq(s, 20, 25) = Lit("+00:00"))
    IN IF ~shape THEN None
       ELSE LET f == <<NumAt(s, 1, 4), NumAt(s, 6, 7), NumAt(s, 9, 10),
                       NumAt(s, 12, 13), NumAt(s, 15, 16), NumAt(s, 18, 19)>>
            IN IF /\ f[1] >= 1 /\ f[2] \in 1..12 /\ f[3] \in 1..31
                  /\ f[4] \in 0..23 /\ f[5] \in 0..59 /\ f[6] \in 0..59
               THEN <<"dt", f \o <<IF Len(s) = 25 THEN 1 ELSE 0>>>>
               ELSE None

\* _parse_iso: a truthy value that is not a string has no endswith
ParseIso(value) ==
    IF ~Truthy(value) THEN Ok(None)
    ELSE IF ~IsStr(value) THEN Raise("AttributeError")
    ELSE LET s == IF EndsWith(value[2], Lit("Z"))
                  THEN Take(value[2], Len(value[2]) - 1) \o Lit("+00:00")
                  ELSE value[2]
         IN Ok(FromIsoFormat(s))

\* str(n) of a natural number
RECURSIVE Digits(_)
Digits(n) == IF n < 10 THEN <<DigitChars[n + 1]>>
             ELSE Digits(n \div 10) \o <<DigitChars[(n % 10) + 1]>>

\* str(x) of a decoded scalar
PyStr(j) ==
    CASE j[1] = "str" -> j[2]
      [] j[1] = "num" -> Digits(j[2])
      [] j[1] = "bool" -> IF j[2] THEN <<"T", "r", "u", "e">> ELSE <<"F", "a", "l", "s", "e">>

\* sep.join(parts) over decoded values: a part that is no string is a TypeError
JoinValues(parts, sep) ==
    IF \E i \in 1..Len(parts) : ~IsStr(parts[i]) THEN Raise("TypeError")
    ELSE Ok(Join([i \in 1..Len(parts) |-> parts[i][2]], sep))

CmdMax == 100
TitleMax == 80

\* ------------------------------------- log-stream decoder: user records

\* the parts list built from the sub-blocks of a tool_result's content
RECURSIVE ToolResultParts(_)
ToolResultParts(subs) ==
    IF subs = <<>> THEN <<>>
    ELSE LET sub == Head(subs)
             here ==
                IF IsDict(sub)
                THEN LET sub_type == Get(sub, "type", JStr(<<>>))
                     IN IF JEq(sub_type, JStr(Lit("text")))
                        THEN <<Get(sub, "text", JStr(<<>>))>>
                        ELSE IF JEq(sub_type, JStr(Lit("image")))
                        THEN <<JStr(Lit("[Image]"))>>
                        ELSE LET text == Get(sub, "text", JStr(<<>>))
                             IN IF Truthy(text) THEN <<text>> ELSE <<>>
                ELSE IF IsStr(sub) THEN <<sub>> ELSE <<>>
         IN here \o ToolResultParts(Tail(subs))

\* one tool_result block: the standalone tool message
ToolResultMessage(block, timestamp) ==
    LET raw == Get(block, "content", JStr(<<>>))
        tool_content ==
            IF IsList(raw)
            THEN LET j == JoinValues(ToolResultParts(raw[2]), Lit("\n"))
                 IN IF Raised(j) THEN j ELSE Ok(JStr(j.val))
            ELSE Ok(raw)
        is_error == Get(block, "is_error", JBool(FALSE))
    IN IF Raised(tool_content) THEN tool_content
       ELSE Ok(Msg(IF ~Truthy(is_error) THEN "tool" ELSE "error",
                   IF Truthy(tool_content.val) THEN PyStr(tool_content.val)
                   ELSE Lit("(empty result)"),
                   timestamp, "tool_result",
                   [tool_use_id |-> Get(block, "tool_use_id", JStr(<<>>))]))

\* the body of the loop over the blocks of a user record
UserBlock(block, timestamp, acc) ==
    IF ~IsDict(block)
    THEN IF IsStr(block) /\ Strip(block[2]) # <<>>
         THEN [acc EXCEPT !.text_parts = Append(@, block[2])]
         ELSE acc
    ELSE LET block_type == Get(block, "type", JStr(<<>>))
         IN IF JEq(block_type, JStr(Lit("text")))
            THEN LET text == Get(block, "text", JStr(<<>>))
                 IN IF ~IsStr(text) THEN [acc EXCEPT !.exc = "AttributeError"]
                    ELSE IF Strip(text[2]) # <<>>
                    THEN [acc EXCEPT !.text_parts = Append(@, text[2])]
                    ELSE acc
            ELSE IF JEq(block_type, JStr(Lit("tool_result")))
            THEN LET m == ToolResultMessage(block, timestamp)
                 IN IF Raised(m) THEN [acc EXCEPT !.exc = m.exc]
                    ELSE [acc EXCEPT !.messages = Append(@, m.val)]
            ELSE acc

RECURSIVE UserBlocks(_, _, _)
UserBlocks(blocks, timestamp, acc) ==
    IF blocks = <<>> \/ acc.exc # "none" THEN acc
    ELSE UserBlocks(Tail(blocks), timestamp, UserBlock(Head(blocks), timestamp, acc))

NoAcc == [exc |-> "none", messages |-> <<>>, text_parts |-> <<>>]

\* a slip: the text message replaces the messages of the other blocks
InsertTextOnly(role, acc, timestamp) ==
    IF acc.exc # "none" THEN Raise(acc.exc)
    ELSE IF acc.text_parts # <<>>
    THEN Ok(<<Msg(role, Join(acc.text_parts, Lit("\n")), timestamp, "text", NoKeys)>>)
    ELSE Ok(acc.messages)

\* the text message a record's text blocks add up to, put first
InsertText(role, acc, timestamp) ==
    IF acc.exc # "none" THEN Raise(acc.exc)
    ELSE IF acc.text_parts # <<>>
    THEN Ok(<<Msg(role, Join(acc.text_parts, Lit("\n")), timestamp, "text", NoKeys)>>
            \o acc.messages)
    ELSE Ok(acc.messages)

\* ClaudeCodeProvider._parse_user_entry
ParseUserEntry(entry, timestamp) ==
    LET msg_data == Get(entry, "message", EmptyObj)
    IN IF ~IsDict(msg_data) THEN Raise("AttributeError")
       ELSE LET content == Get(msg_data, "content", JArr(<<>>))
            IN IF IsStr(content)
               THEN IF Strip(content[2]) # <<>>
                    THEN Ok(<<Msg("user", content[2], timestamp, "text", NoKeys)>>)
                    ELSE Ok(<<>>)
               ELSE IF ~IsList(content) THEN Raise("TypeError")
               ELSE InsertText("user", UserBlocks(content[2], timestamp, NoAcc), timestamp)

\* -------------------------------- log-stream decoder: assistant records

\* one tool_use block: the standalone tool_call message
ToolUseMessage(block, timestamp) ==
    LET tool_name == Get(block, "name", JStr(Lit("unknown")))
        tool_input == Get(block, "input", EmptyObj)
    IN IF ~IsDict(tool_input) THEN Raise("AttributeError")
       ELSE LET file_path == Get(tool_input, "file_path",
                                 Get(tool_input, "path", JStr(<<>>)))
                command == Get(tool_input, "command", JStr(<<>>))
                cmd_short == JStr(Take(command[2], CmdMax)
                                  \o (IF Len(command[2]) > CmdMax THEN Lit("...") ELSE <<>>))
                summary_parts ==
                    IF Truthy(file_path) THEN <<tool_name, file_path>>
                    ELSE IF Truthy(command) THEN <<tool_name, cmd_short>>
                    ELSE <<tool_name>>
            IN IF ~Truthy(file_path) /\ Truthy(command) /\ ~IsStr(command)
               THEN Raise("TypeError")
               ELSE LET content == JoinValues(summary_parts, Lit(": "))
                    IN IF Raised(content) THEN content
                       ELSE Ok(Msg("tool", content.val, timestamp, "tool_call",
                                   [tool_name |-> tool_name, file_path |-> file_path,
                                    tool_use_id |-> Get(block, "id", JStr(<<>>))]))

\* the body of the loop over the blocks of an assistant record
AssistantBlock(block, timestamp, acc) ==
    IF ~IsDict(block) THEN acc
    ELSE LET block_type == Get(block, "type", JStr(<<>>))
         IN IF JEq(block_type, JStr(Lit("text")))
            THEN LET text == Get(block, "text", JStr(<<>>))
                 IN IF ~IsStr(text) THEN [acc EXCEPT !.exc = "AttributeError"]
                    ELSE IF Strip(text[2]) # <<>>
                    THEN [acc EXCEPT !.text_parts = Append(@, text[2])]
                    ELSE acc
            ELSE IF JEq(block_type, JStr(Lit("tool_use")))
            THEN LET m == ToolUseMessage(block, timestamp)
                 IN IF Raised(m) THEN [acc EXCEPT !.exc = m.exc]
                    ELSE [acc EXCEPT !.messages = Append(@, m.val)]
            ELSE IF JEq(block_type, JStr(Lit("thinking")))
            THEN LET text == Get(block, "thinking", JStr(<<>>))
                 IN IF ~IsStr(text) THEN [acc EXCEPT !.exc = "AttributeError"]
                    ELSE IF Strip(text[2]) # <<>>
                    THEN [acc EXCEPT !.messages =
                            Append(@, Msg("thinking", text[2], timestamp, "thinking", NoKeys))]
                    ELSE acc
            ELSE acc

RECURSIVE AssistantBlocks(_, _, _)
AssistantBlocks(blocks, timestamp, acc) ==
    IF blocks = <<>> \/ acc.exc # "none" THEN acc
    ELSE AssistantBlocks(Tail(blocks), timestamp,
                         AssistantBlock(Head(blocks), timestamp, acc))

\* ClaudeCodeProvider._parse_assistant_entry
ParseAssistantEntry(entry, timestamp) ==
    LET msg_data == Get(entry, "message", EmptyObj)
    IN IF ~IsDict(msg_data) THEN Raise("AttributeError")
       ELSE LET content_blocks == Get(msg_data, "content", JArr(<<>>))
            IN IF IsStr(content_blocks)
               THEN IF Strip(content_blocks[2]) # <<>>
                    THEN Ok(<<Msg("assistant", content_blocks[2], timestamp, "text", NoKeys)>>)
                    ELSE Ok(<<>>)
               ELSE IF ~IsList(content_blocks) THEN Raise("TypeError")
               ELSE InsertText("assistant",
                               AssistantBlocks(content_blocks[2], timestamp, NoAcc),
                               timestamp)

\* ------------------------------------------- log-stream decoder: the log

InertTypes ==
    {Lit("file-history-snapshot"), Lit("progress"), Lit("system"),
     Lit("summary"), Lit("queue-operation")}

\* ClaudeCodeProvider._entry_to_messages; entry is whatever json.loads gave
EntryToMessages(entry) ==
    IF ~IsDict(entry) THEN Raise("AttributeError")
    ELSE LET entry_type == Get(entry, "type", JStr(<<>>))
             timestamp == ParseIso(Get(entry, "timestamp", JNull))
         IN IF Raised(timestamp) THEN timestamp
            ELSE IF IsStr(entry_type) /\ entry_type[2] \in InertTypes THEN Ok(<<>>)
            ELSE IF IsStr(entry_type) /\ entry_type[2] \in {Lit("human"), Lit("user")}
            THEN ParseUserEntry(entry, timestamp.val)
            ELSE IF JEq(entry_type, JStr(Lit("assistant")))
            THEN ParseAssistantEntry(entry, timestamp.val)
            ELSE Ok(<<>>)

\* a line of the file: blank, not JSON, or the value json.loads decodes
BlankLine == [json |-> "blank", value |-> JNull]
BadLine == [json |-> "bad", value |-> JNull]
JsonLine(v) == [json |-> "ok", value |-> v]

\* a slip: the JSONDecodeError of a line is not caught
LineToMessagesAbort(line) ==
    IF line.json = "blank" THEN Ok(<<>>)
    ELSE IF line.json = "bad" THEN Raise("JSONDecodeError")
    ELSE EntryToMessages(line.value)

\* one turn of the loop of _parse_jsonl: the messages the line adds
LineToMessages(line) ==
    IF line.json = "blank" THEN Ok(<<>>)
    ELSE IF line.json = "bad" THEN Ok(<<>>)
    ELSE EntryToMessages(line.value)

\* ClaudeCodeProvider._parse_jsonl: only OSError is caught around the loop
RECURSIVE ParseJsonlFrom(_, _)
ParseJsonlFrom(lines, messages) ==
    IF lines = <<>> THEN Ok(messages)
    ELSE LET r == LineToMessages(Head(lines))
         IN IF Raised(r) THEN r
            ELSE ParseJsonlFrom(Tail(lines), messages \o r.val)

\* a datetime is earlier than another: field by field, None before all
RECURSIVE FieldsBefore(_, _)
FieldsBefore(a, b) ==
    IF a = <<>> THEN FALSE
    ELSE Head(a) < Head(b) \/ (Head(a) = Head(b) /\ FieldsBefore(Tail(a), Tail(b)))

Earlier(a, b) ==
    IF b = <<"none", 0>> THEN FALSE
    ELSE IF a = <<"none", 0>> THEN TRUE
    ELSE FieldsBefore(a[2], b[2])

RECURSIVE InsertByTimestamp(_, _)
InsertByTimestamp(sorted, msg) ==
    IF sorted = <<>> THEN <<msg>>
    ELSE IF Earlier(msg.timestamp, Head(sorted).timestamp) THEN <<msg>> \o sorted
    ELSE <<Head(sorted)>> \o InsertByTimestamp(Tail(sorted), msg)

RECURSIVE SortByTimestamp(_)
SortByTimestamp(messages) ==
    IF messages = <<>> THEN <<>>
    ELSE InsertByTimestamp(SortByTimestamp(SubSeq(messages, 1, Len(messages) - 1)),
                           messages[Len(messages)])

\* a slip: the decoded messages sorted by timestamp before they are returned
SortedIfDecoded(r) ==
    IF r.exc # "none" THEN r ELSE [exc |-> "none", val |-> SortByTimestamp(r.val)]

ParseJsonlSorted(lines) == SortedIfDecoded(ParseJsonlFrom(lines, <<>>))

ParseJsonl(lines) == ParseJsonlFrom(lines, <<>>)

\* <claude root>/<project_name>/<session_uuid>.jsonl exists
ClaudeSessionFileExists(project_name, session_uuid) ==
    BaseIsDir("claude_code") /\ project_name = Lit("p1") /\ session_uuid = Lit("s1")

\* ClaudeCodeProvider.get_session_messages
ClaudeSessionMessages(session_id, lines) ==
    LET parts == Split(session_id, ":", 2)
    IN IF Len(parts) < 3 \/ parts[1] # Lit("claude") THEN Ok(<<>>)
       ELSE IF ~ClaudeSessionFileExists(parts[2], parts[3]) THEN Ok(<<>>)
       ELSE ParseJsonl(lines)

\* ------------------------------------- log-stream decoder: session listing

\* a stored JSON text: no row (or an unreadable store), a value that is not
\* JSON, or the value json.loads decodes
NoRow == [json |-> "absent", value |-> JNull]
BadRow == [json |-> "bad", value |-> JNull]
JsonRow(v) == [json |-> "ok", value |-> v]

\* the file itself is missing
NoFile == [json |-> "nofile", value |-> JNull]

\* the directory that would hold the file is missing
NoDir == [json |-> "nodir", value |-> JNull]

\* the bytes of the file are not UTF-8: read_text raises UnicodeDecodeError
Undecodable == [json |-> "undecodable", value |-> JNull]

\* the file cannot be opened: read_text raises OSError
Unreadable == [json |-> "unreadable", value |-> JNull]

\* the query raises sqlite3.Error: the store has no ItemTable, or is locked
QueryRaises == [json |-> "raises", value |-> JNull]

\* ClaudeCodeProvider._resolve_display_path; idx is sessions-index.json
ResolveDisplayPath(name, idx) ==
    LET data == idx.value
        first == data[2][1]
        path == Get(first, "projectPath", JNull)
        derived == IF name # <<>> /\ Head(name) = "-"
                   THEN [i \in 1..Len(name) |-> IF name[i] = "-" THEN "/" ELSE name[i]]
                   ELSE name
    IN IF idx.json = "undecodable" THEN Raise("UnicodeDecodeError")
       ELSE IF idx.json = "ok" /\ IsList(data) /\ data[2] # <<>>
       THEN IF ~IsDict(first) THEN Raise("AttributeError")
            ELSE IF Truthy(path) THEN Ok(path[2])
            ELSE Ok(derived)
       ELSE Ok(derived)

\* entry.get("firstPrompt") or entry.get("summary") or "Untitled", cut to 80
TitleOfEntry(entry) ==
    LET first == Get(entry, "firstPrompt", JNull)
        summary == Get(entry, "summary", JNull)
        title == IF Truthy(first) THEN first
                 ELSE IF Truthy(summary) THEN summary ELSE JStr(Lit("Untitled"))
    IN IF ~IsStr(title) THEN Raise("TypeError") ELSE Ok(Take(title[2], TitleMax))

\* the loop of _read_project_sessions over the entries of the index
RECURSIVE IndexSessions(_, _, _)
IndexSessions(entries, name, display_path) ==
    IF entries = <<>> THEN Ok(<<>>)
    ELSE LET entry == Head(entries)
             session_id == Get(entry, "sessionId", JStr(<<>>))
             title == TitleOfEntry(entry)
             created == ParseIso(Get(entry, "created", JNull))
             modified == ParseIso(Get(entry, "modified", JNull))
             msg_count == Get(entry, "messageCount", JNum(0))
             project_path == Get(entry, "projectPath", JStr(display_path))
             rest == IndexSessions(Tail(entries), name, display_path)
         IN IF ~IsDict(entry) \/ ~Truthy(session_id) THEN rest
            ELSE IF Raised(title) THEN title
            ELSE IF Raised(created) THEN created
            ELSE IF Raised(modified) THEN modified
            ELSE IF Raised(rest) THEN rest
            ELSE Ok(<<Session(IdOf(<<Lit("claude"), name, PyStr(session_id)>>), name,
                              title.val, msg_count[2], created.val, modified.val,
                              "claude_code", project_path[2])>>
                    \o rest.val)

\* ClaudeCodeProvider._extract_user_text
ExtractUserText(entry) ==
    LET msg_data == Get(entry, "message", EmptyObj)
        content == Get(msg_data, "content", JArr(<<>>))
        texts == SelectSeq(content[2],
                           LAMBDA block : IsStr(block)
                                          \/ (IsDict(block)
                                              /\ JEq(Get(block, "type", JNull), JStr(Lit("text")))))
        parts == [i \in 1..Len(texts) |->
                    IF IsStr(texts[i]) THEN texts[i] ELSE Get(texts[i], "text", JStr(<<>>))]
    IN IF ~IsDict(msg_data) THEN Raise("AttributeError")
       ELSE IF IsStr(content) THEN Ok(content[2])
       ELSE IF ~IsList(content) THEN Raise("TypeError")
       ELSE JoinValues(parts, Lit("\n"))

\* the title loop of _scan_jsonl_sessions: the first user text, cut to 80; a
\* line that is not JSON ends the loop
RECURSIVE ScanTitle(_)
ScanTitle(lines) ==
    IF lines = <<>> THEN Ok(Lit("Untitled"))
    ELSE LET line == Head(lines)
             entry == line.value
             text == ExtractUserText(entry)
         IN IF line.json = "blank" THEN ScanTitle(Tail(lines))
            ELSE IF line.json = "bad" THEN Ok(Lit("Untitled"))
            ELSE IF ~IsDict(entry) THEN Raise("AttributeError")
            ELSE IF ~(Get(entry, "type", JNull) \in {JStr(Lit("human")), JStr(Lit("user"))})
            THEN ScanTitle(Tail(lines))
            ELSE IF Raised(text) THEN text
            ELSE IF text.val # <<>> THEN Ok(Take(text.val, TitleMax))
            ELSE ScanTitle(Tail(lines))

\* ClaudeCodeProvider._scan_jsonl_sessions: the one session file is s1.jsonl
ScanJsonlSessions(name, idx, lines) ==
    LET display_path == ResolveDisplayPath(name, idx)
        title == ScanTitle(lines)
    IN IF Raised(display_path) THEN display_path
       ELSE IF Raised(title) THEN title
       ELSE Ok(<<Session(IdOf(<<Lit("claude"), name, Lit("s1")>>), name, title.val,
                         Len(lines), None, None, "claude_code", display_path.val)>>)

\* ClaudeCodeProvider._read_project_sessions
ReadProjectSessions(name, idx, lines) ==
    LET display_path == ResolveDisplayPath(name, idx)
    IN IF idx.json = "nofile" THEN ScanJsonlSessions(name, idx, lines)
       ELSE IF idx.json = "undecodable" THEN Raise("UnicodeDecodeError")
       ELSE IF idx.json # "ok" THEN Ok(<<>>)
       ELSE IF ~IsList(idx.value) THEN Ok(<<>>)
       ELSE IF Raised(display_path) THEN display_path
       ELSE IndexSessions(idx.value[2], name, display_path.val)

\* project_dir.is_dir(): p1 always, p2 when the sibling directory exists
ClaudeProjectExists(name) ==
    name = Lit("p1") \/ (name = Lit("p2") /\ sibling # NoDir)

\* sessions.extend(...): an exception of either part leaves list_sessions
Extend(first, rest) ==
    IF Raised(first) THEN first
    ELSE IF Raised(rest) THEN rest
    ELSE Ok(first.val \o rest.val)

\* the loop of list_sessions over project_dirs; p2 holds no session log
RECURSIVE ProjectSessions(_, _, _)
ProjectSessions(project_dirs, idx, lines) ==
    IF project_dirs = <<>> THEN Ok(<<>>)
    ELSE IF ~ClaudeProjectExists(Head(project_dirs))
    THEN ProjectSessions(Tail(project_dirs), idx, lines)
    ELSE Extend(IF Head(project_dirs) = Lit("p1")
                THEN ReadProjectSessions(Lit("p1"), idx, lines)
                ELSE ReadProjectSessions(Lit("p2"), sibling, <<>>),
                ProjectSessions(Tail(project_dirs), idx, lines))

\* ClaudeCodeProvider.list_sessions: workspace_id is <<>> for None and <<w>>
\* for the string w; iterdir gives p1 before p2
ClaudeSessions(workspace_id, idx, lines) ==
    IF ~BaseIsDir("claude_code") THEN Ok(<<>>)
    ELSE ProjectSessions(IF workspace_id # <<>> /\ workspace_id[1] # <<>>
                         THEN <<workspace_id[1]>> ELSE <<Lit("p1"), Lit("p2")>>,
                         idx, lines)

\* ------------------------------------------ keyed-store decoder: reading

\* for x in data: a value that is not iterable is a TypeError; the entries of
\* a list are its elements (inputs hold no dict or string in this place)
Iterable(data) == IsList(data)

\* CursorProvider._read_prompts: the texts of the entries that are objects
\* with a non-empty text
RECURSIVE PromptTexts(_)
PromptTexts(entries) ==
    IF entries = <<>> THEN <<>>
    ELSE LET p == Head(entries)
         IN (IF IsDict(p) /\ Truthy(Get(p, "text", JNull))
             THEN <<Get(p, "text", JStr(<<>>))[2]>> ELSE <<>>)
            \o PromptTexts(Tail(entries))

ReadPrompts(store) ==
    LET row == store["aiService.prompts"]
    IN IF row.json # "ok" THEN Ok(<<>>)
       ELSE IF ~Iterable(row.value) THEN Raise("TypeError")
       ELSE Ok(PromptTexts(row.value[2]))

\* CursorProvider._read_generations: the entries that are objects
RECURSIVE OnlyDicts(_)
OnlyDicts(entries) ==
    IF entries = <<>> THEN <<>>
    ELSE (IF IsDict(Head(entries)) THEN <<Head(entries)>> ELSE <<>>)
         \o OnlyDicts(Tail(entries))

ReadGenerations(store) ==
    LET row == store["aiService.generations"]
    IN IF row.json # "ok" THEN Ok(<<>>)
       ELSE IF ~Iterable(row.value) THEN Raise("TypeError")
       ELSE Ok(OnlyDicts(row.value[2]))

\* _ms_to_datetime: seconds and milliseconds since the epoch
MsToDatetime(ms) ==
    IF ms = JNull THEN None ELSE <<"dt", <<ms[2] \div 1000, ms[2] % 1000>>>>


\* _truncate(text, max_len)
Truncate(text, max_len) ==
    IF Len(text) <= max_len THEN text
    ELSE Take(text, max_len - 3) \o Lit("...")

\* ---------------------------------- keyed-store decoder: time-range filter

\* a slip: the end of the range taken as exclusive
InRangeExclusiveEnd(gen, start_ms, end_ms) ==
    LET ts == Get(gen, "unixMs", JNull)
    IN /\ ts # JNull
       /\ ~(start_ms # JNull /\ ts[2] < start_ms[2])
       /\ ~(end_ms # JNull /\ ts[2] >= end_ms[2])

\* the three tests of the loop body shared by _count_messages_in_range and
\* _get_workspace_messages: the generation is kept
InRange(gen, start_ms, end_ms) ==
    LET ts == Get(gen, "unixMs", JNull)
    IN /\ ts # JNull
       /\ ~(start_ms # JNull /\ ts[2] < start_ms[2])
       /\ ~(end_ms # JNull /\ ts[2] > end_ms[2])

RECURSIVE Filter(_, _, _)
Filter(generations, start_ms, end_ms) ==
    IF generations = <<>> THEN <<>>
    ELSE (IF InRange(Head(generations), start_ms, end_ms)
          THEN <<Head(generations)>> ELSE <<>>)
         \o Filter(Tail(generations), start_ms, end_ms)

\* CursorProvider._count_messages_in_range
CountMessagesInRange(generations, start_ms, end_ms) ==
    IF generations = <<>> THEN 0
    ELSE IF start_ms = JNull /\ end_ms = JNull THEN Len(generations)
    ELSE Len(Filter(generations, start_ms, end_ms))

\* list.sort(key=unixMs): stable insertion by ascending key
RECURSIVE InsertByTime(_, _)
InsertByTime(sorted, gen) ==
    IF sorted = <<>> THEN <<gen>>
    ELSE IF Get(Head(sorted), "unixMs", JNum(0))[2] <= Get(gen, "unixMs", JNum(0))[2]
    THEN <<Head(sorted)>> \o InsertByTime(Tail(sorted), gen)
    ELSE <<gen>> \o sorted

RECURSIVE SortByTime(_)
SortByTime(gens) ==
    IF gens = <<>> THEN <<>>
    ELSE InsertByTime(SortByTime(SubSeq(gens, 1, Len(gens) - 1)), gens[Len(gens)])

\* ------------------------------ keyed-store decoder: message reconstruction

\* the loop over data.get("allComposers", []) that looks for the composer:
\* val is <<>> when none matches and <<comp>> for the first match
RECURSIVE FindTarget(_, _)
FindTarget(composers, composer_id) ==
    IF composers = <<>> THEN Ok(<<>>)
    ELSE IF ~IsDict(Head(composers)) THEN Raise("AttributeError")
    ELSE IF JEq(Get(Head(composers), "composerId", JNull), JStr(composer_id))
    THEN Ok(<<Head(composers)>>)
    ELSE FindTarget(Tail(composers), composer_id)

RECURSIVE OfType(_, _)
OfType(gens, type) ==
    IF gens = <<>> THEN <<>>
    ELSE (IF JEq(Get(Head(gens), "type", JNull), JStr(Lit(type)))
          THEN <<Head(gens)>> ELSE <<>>)
         \o OfType(Tail(gens), type)

\* a slip: the summary appended even when it is empty
GenMessagesAlways(gen, prompts, prompt_idx) ==
    LET ts == MsToDatetime(Get(gen, "unixMs", JNull))
    IN (IF prompt_idx < Len(prompts)
        THEN <<Msg("user", prompts[prompt_idx + 1], ts, "text", NoKeys)>> ELSE <<>>)
       \o <<Msg("assistant", Get(gen, "textDescription", JStr(<<>>))[2], ts, "text", NoKeys)>>

\* the body of the loop over composer_gens: the messages one generation adds
\* when prompt_idx prompts are already used
GenMessages(gen, prompts, prompt_idx) ==
    LET ts == MsToDatetime(Get(gen, "unixMs", JNull))
        desc == Get(gen, "textDescription", JStr(<<>>))
    IN (IF prompt_idx < Len(prompts)
        THEN <<Msg("user", prompts[prompt_idx + 1], ts, "text", NoKeys)>> ELSE <<>>)
       \o (IF Truthy(desc)
           THEN <<Msg("assistant", desc[2], ts, "text", NoKeys)>> ELSE <<>>)

\* a slip: the prompts left over after the last generation are dropped
RECURSIVE InterleaveNoRest(_, _, _)
InterleaveNoRest(composer_gens, prompts, prompt_idx) ==
    IF composer_gens = <<>> THEN <<>>
    ELSE GenMessages(Head(composer_gens), prompts, prompt_idx)
         \o InterleaveNoRest(Tail(composer_gens), prompts,
                             IF prompt_idx < Len(prompts) THEN prompt_idx + 1
                             ELSE prompt_idx)

\* the loop over composer_gens, then the loop over the remaining prompts
RECURSIVE Interleave(_, _, _)
Interleave(composer_gens, prompts, prompt_idx) ==
    IF composer_gens = <<>>
    THEN [i \in 1..(Len(prompts) - Min(prompt_idx, Len(prompts))) |->
            Msg("user", prompts[prompt_idx + i], None, "text", NoKeys)]
    ELSE GenMessages(Head(composer_gens), prompts, prompt_idx)
         \o Interleave(Tail(composer_gens), prompts,
                       IF prompt_idx < Len(prompts) THEN prompt_idx + 1 ELSE prompt_idx)

\* the workspaces on disk with a state.vscdb: one, w1
CursorWorkspaceExists(workspace_hash) ==
    BaseIsDir("cursor") /\ workspace_hash = Lit("w1")

\* get_cursor_global_path().exists()
GlobalDbExists == chatdata.json # "nofile"

\* the generations of the store that reconstruction gives to a composer
SessionGens(generations, target) ==
    SortByTime(Filter(generations, Get(target, "createdAt", JNull),
                      Get(target, "lastUpdatedAt", JNull)))

\* CursorProvider._get_workspace_messages
GetWorkspaceMessages(workspace_hash, composer_id, store) ==
    LET row == store["composer.composerData"]
        data == row.value
        composers == Get(data, "allComposers", JArr(<<>>))
        found == FindTarget(composers[2], composer_id)
        target == found.val[1]
        prompts == ReadPrompts(store)
        generations == ReadGenerations(store)
    IN IF ~CursorWorkspaceExists(workspace_hash) THEN Ok(<<>>)
       ELSE IF row.json # "ok" THEN Ok(<<>>)
       ELSE IF ~IsDict(data) THEN Raise("AttributeError")
       ELSE IF ~Iterable(composers) THEN Raise("TypeError")
       ELSE IF Raised(found) THEN found
       ELSE IF found.val = <<>> THEN Ok(<<>>)
       ELSE IF Raised(prompts) THEN prompts
       ELSE IF Raised(generations) THEN generations
       ELSE Ok(Interleave(OfType(SessionGens(generations.val, target), "composer"),
                          prompts.val, 0))

\* a slip: only bubbles of type ai are given to the assistant
RECURSIVE BubbleMessagesAiOnly(_)
BubbleMessagesAiOnly(bubbles) ==
    IF bubbles = <<>> THEN Ok(<<>>)
    ELSE LET bubble == Head(bubbles)
             rest == BubbleMessagesAiOnly(Tail(bubbles))
         IN IF ~IsDict(bubble) THEN Raise("AttributeError")
            ELSE IF Raised(rest) THEN rest
            ELSE Ok(<<Msg(IF JEq(Get(bubble, "type", JStr(<<>>)), JStr(Lit("ai")))
                          THEN "assistant" ELSE "user",
                          Get(bubble, "text", JStr(<<>>))[2], None, "text", NoKeys)>>
                    \o rest.val)

\* the loop of _get_global_messages over the bubbles of the tab
RECURSIVE BubbleMessages(_)
BubbleMessages(bubbles) ==
    IF bubbles = <<>> THEN Ok(<<>>)
    ELSE LET bubble == Head(bubbles)
             rest == BubbleMessages(Tail(bubbles))
         IN IF ~IsDict(bubble) THEN Raise("AttributeError")
            ELSE IF Raised(rest) THEN rest
            ELSE Ok(<<Msg(IF JEq(Get(bubble, "type", JStr(<<>>)), JStr(Lit("user")))
                          THEN "user" ELSE "assistant",
                          Get(bubble, "text", JStr(<<>>))[2], None, "text", NoKeys)>>
                    \o rest.val)

\* the loop of _get_global_messages over the tabs: the first tab of that id
RECURSIVE TabMessages(_, _)
TabMessages(tabs, tab_id) ==
    IF tabs = <<>> THEN Ok(<<>>)
    ELSE IF ~IsDict(Head(tabs)) THEN Raise("AttributeError")
    ELSE IF ~JEq(Get(Head(tabs), "tabId", JNull), JStr(tab_id))
    THEN TabMessages(Tail(tabs), tab_id)
    ELSE IF ~Iterable(Get(Head(tabs), "bubbles", JArr(<<>>))) THEN Raise("TypeError")
    ELSE BubbleMessages(Get(Head(tabs), "bubbles", JArr(<<>>))[2])

\* CursorProvider._get_global_messages
GetGlobalMessages(tab_id) ==
    LET data == chatdata.value
        tabs == Get(data, "tabs", JArr(<<>>))
    IN IF ~GlobalDbExists THEN Ok(<<>>)
       ELSE IF chatdata.json # "ok" THEN Ok(<<>>)
       ELSE IF ~IsDict(data) THEN Raise("AttributeError")
       ELSE IF ~Iterable(tabs) THEN Raise("TypeError")
       ELSE TabMessages(tabs[2], tab_id)

\* CursorProvider.get_session_messages
CursorSessionMessages(session_id, store) ==
    LET parts == Split(session_id, ":", 2)
    IN IF Len(parts) < 3 \/ parts[1] # Lit("cursor") THEN Ok(<<>>)
       ELSE IF parts[2] = Lit("global") THEN GetGlobalMessages(parts[3])
       ELSE GetWorkspaceMessages(parts[2], parts[3], store)

\* ------------------------------------ keyed-store decoder: session listing

\* the loop of _read_sessions_from_db over the composers
RECURSIVE ComposerSessions(_, _, _, _, _)
ComposerSessions(composers, prompts, generations, workspace_hash, display_path) ==
    IF composers = <<>> THEN Ok(<<>>)
    ELSE LET comp == Head(composers)
             composer_id == Get(comp, "composerId", JStr(<<>>))
             name == Get(comp, "name", JStr(<<>>))
             created_ms == Get(comp, "createdAt", JNull)
             updated_ms == Get(comp, "lastUpdatedAt", JNull)
             msg_count == CountMessagesInRange(generations, created_ms, updated_ms)
             title == IF Strip(name[2]) # <<>> THEN Strip(name[2])
                      ELSE Truncate(IF prompts # <<>> THEN prompts[1]
                                    ELSE Lit("Untitled"), TitleMax)
             rest == ComposerSessions(Tail(composers), prompts, generations,
                                      workspace_hash, display_path)
         IN IF ~IsDict(comp) THEN Raise("AttributeError")
            ELSE IF ~Truthy(composer_id) THEN rest
            ELSE IF ~IsStr(name) THEN Raise("AttributeError")
            ELSE IF Raised(rest) THEN rest
            ELSE Ok(<<Session(IdOf(<<Lit("cursor"), workspace_hash, composer_id[2]>>),
                              workspace_hash, title, msg_count,
                              MsToDatetime(created_ms), MsToDatetime(updated_ms),
                              "cursor", display_path)>>
                    \o rest.val)

\* CursorProvider._read_sessions_from_db
ReadSessionsFromDb(store, workspace_hash, display_path) ==
    LET row == store["composer.composerData"]
        data == row.value
        composers == Get(data, "allComposers", JArr(<<>>))
        prompts == ReadPrompts(store)
        generations == ReadGenerations(store)
    IN IF row.json # "ok" THEN Ok(<<>>)
       ELSE IF ~IsDict(data) THEN Raise("AttributeError")
       ELSE IF Raised(prompts) THEN prompts
       ELSE IF Raised(generations) THEN generations
       ELSE IF ~Iterable(composers) THEN Raise("TypeError")
       ELSE ComposerSessions(composers[2], prompts.val, generations.val,
                             workspace_hash, display_path)

\* the title loop of _read_global_sessions: the first user bubble, truncated
RECURSIVE BubbleTitle(_)
BubbleTitle(bubbles) ==
    IF bubbles = <<>> THEN Ok(Lit("Chat"))
    ELSE IF ~IsDict(Head(bubbles)) THEN Raise("AttributeError")
    ELSE IF JEq(Get(Head(bubbles), "type", JNull), JStr(Lit("user")))
    THEN Ok(Truncate(Get(Head(bubbles), "text", JStr(Lit("Chat")))[2], TitleMax))
    ELSE BubbleTitle(Tail(bubbles))

\* the loop of _read_global_sessions over the tabs
RECURSIVE TabSessions(_)
TabSessions(tabs) ==
    IF tabs = <<>> THEN Ok(<<>>)
    ELSE LET tab == Head(tabs)
             tab_id == Get(tab, "tabId", JStr(<<>>))
             bubbles == Get(tab, "bubbles", JArr(<<>>))
             title == BubbleTitle(bubbles[2])
             rest == TabSessions(Tail(tabs))
         IN IF ~IsDict(tab) THEN Raise("AttributeError")
            ELSE IF ~Truthy(tab_id) \/ ~Truthy(bubbles) THEN rest
            ELSE IF ~Iterable(bubbles) THEN Raise("TypeError")
            ELSE IF Raised(title) THEN title
            ELSE IF Raised(rest) THEN rest
            ELSE Ok(<<Session(IdOf(<<Lit("cursor"), Lit("global"), tab_id[2]>>),
                              Lit("global"), title.val, Len(bubbles[2]),
                              None, None, "cursor", Lit("(global)"))>>
                    \o rest.val)

\* CursorProvider._read_global_sessions
ReadGlobalSessions ==
    LET data == chatdata.value
        tabs == Get(data, "tabs", JArr(<<>>))
    IN IF ~GlobalDbExists THEN Ok(<<>>)
       ELSE IF chatdata.json # "ok" THEN Ok(<<>>)
       ELSE IF ~IsDict(data) THEN Raise("AttributeError")
       ELSE IF ~Iterable(tabs) THEN Raise("TypeError")
       ELSE TabSessions(tabs[2])

\* CursorProvider.list_sessions: workspace_id is <<>> for None and <<w>> for
\* the string w; workspace.json of w1 names the folder /w
CursorSessions(workspace_id, store) ==
    LET ws_dirs == IF workspace_id # <<>> /\ workspace_id[1] # <<>>
                   THEN <<workspace_id[1]>> ELSE <<Lit("w1")>>
        ws_sessions == IF CursorWorkspaceExists(ws_dirs[1])
                       THEN ReadSessionsFromDb(store, ws_dirs[1], Lit("/w"))
                       ELSE Ok(<<>>)
    IN IF ~BaseIsDir("cursor") THEN Ok(<<>>)
       ELSE IF Raised(ws_sessions) THEN ws_sessions
       ELSE IF Raised(ReadGlobalSessions) THEN ReadGlobalSessions
       ELSE Ok(ws_sessions.val \o ReadGlobalSessions.val)

\* ----------------------------------- keyed-store decoder: connections

\* CursorProvider._query_item_table: the connections one call leaves open.
\* conn.close() follows fetchone inside the try, so it is not reached when
\* execute raises: the except clause returns None with the connection open
Unclosed(row) == IF row.json = "raises" THEN 1 ELSE 0

\* the queries of _read_prompts and _read_generations, the second only when
\* the first returned
ListsUnclosed(store) ==
    Unclosed(store["aiService.prompts"])
    + (IF Raised(ReadPrompts(store)) THEN 0 ELSE Unclosed(store["aiService.generations"]))

\* the queries of _get_workspace_messages
WorkspaceUnclosed(workspace_hash, composer_id, store) ==
    LET row == store["composer.composerData"]
        composers == Get(row.value, "allComposers", JArr(<<>>))
    IN IF ~CursorWorkspaceExists(workspace_hash) THEN 0
       ELSE IF row.json # "ok" THEN Unclosed(row)
       ELSE IF ~IsDict(row.value) \/ ~Iterable(composers) THEN 0
       ELSE IF Raised(FindTarget(composers[2], composer_id)) THEN 0
       ELSE IF FindTarget(composers[2], composer_id).val = <<>> THEN 0
       ELSE ListsUnclosed(store)

\* the queries of _read_sessions_from_db
SessionsUnclosed(store) ==
    LET row == store["composer.composerData"]
    IN IF row.json # "ok" THEN Unclosed(row)
       ELSE IF ~IsDict(row.value) THEN 0
       ELSE ListsUnclosed(store)

\* the query of _read_global_sessions and of _get_global_messages
GlobalUnclosed == IF GlobalDbExists THEN Unclosed(chatdata) ELSE 0

\* the queries of get_session_messages
MessagesUnclosed(session_id, store) ==
    LET parts == Split(session_id, ":", 2)
    IN IF Len(parts) < 3 \/ parts[1] # Lit("cursor") THEN 0
       ELSE IF parts[2] = Lit("global") THEN GlobalUnclosed
       ELSE WorkspaceUnclosed(parts[2], parts[3], store)

\* the queries of list_sessions: the global store is read when the
\* workspace part returned
ListUnclosed(workspace_id, store) ==
    LET ws_dir == IF workspace_id # <<>> /\ workspace_id[1] # <<>>
                  THEN workspace_id[1] ELSE Lit("w1")
    IN IF ~BaseIsDir("cursor") THEN 0
       ELSE IF ~CursorWorkspaceExists(ws_dir) THEN GlobalUnclosed
       ELSE IF Raised(ReadSessionsFromDb(store, ws_dir, Lit("/w")))
       THEN SessionsUnclosed(store)
       ELSE SessionsUnclosed(store) + GlobalUnclosed

\* ------------------------------------------- directory-tree decoder: parts

\* a message file: its descriptor, and its part directory when there is one
NoParts == [dir |-> FALSE, files |-> <<>>]
PartDir(files) == [dir |-> TRUE, files |-> files]
MsgFile(row, parts) == [json |-> row.json, value |-> row.value, parts |-> parts]

\* an empty storage root
NoTree == [session |-> NoRow, messages |-> <<>>]

\* the keys of an object in the order items() gives them (inputs hold at
\* most one key where the order shows)
RECURSIVE KeySeq(_)
KeySeq(keys) ==
    IF keys = {} THEN <<>>
    ELSE LET k == CHOOSE x \in keys : TRUE IN <<k>> \o KeySeq(keys \ {k})

\* the characters of a key
KeyChars(k) ==
    CASE k = "pattern" -> Lit("pattern")
      [] k = "include" -> <<"i", "n", "c", "l", "u", "d", "e">>
      [] OTHER -> <<"k">>

\* ", ".join(f"{k}={v}" for k, v in tool_input.items()
\*           if isinstance(v, (str, int, bool)) and str(v))
RECURSIVE InputSummary(_, _)
InputSummary(tool_input, keys) ==
    IF keys = <<>> THEN <<>>
    ELSE LET v == tool_input[2][Head(keys)]
         IN (IF v[1] \in {"str", "num", "bool"} /\ PyStr(v) # <<>>
             THEN <<KeyChars(Head(keys)) \o Lit("=") \o PyStr(v)>> ELSE <<>>)
            \o InputSummary(tool_input, Tail(keys))

\* what the parts read so far have gathered
NoContent == [content_parts |-> <<>>, message_type |-> "text", metadata |-> NoKeys]

\* the branch of a part of type tool (the backquote of the code fence has no
\* string literal here and is written ~)
ToolPart(part, acc) ==
    LET tool_name == Get(part, "tool", JStr(Lit("unknown")))
        state == Get(part, "state", EmptyObj)
        tool_input == Get(state, "input", EmptyObj)
        tool_output == Get(state, "output", JStr(<<>>))
        input_summary == Join(InputSummary(tool_input, KeySeq(DOMAIN tool_input[2])), Lit(", "))
        summary == IF Truthy(tool_input) /\ input_summary # <<>>
                   THEN Lit("[Tool: ") \o PyStr(tool_name) \o Lit(" (")
                        \o input_summary \o Lit(")]")
                   ELSE Lit("[Tool: ") \o PyStr(tool_name) \o Lit("]")
    IN IF ~IsDict(state) THEN Raise("AttributeError")
       ELSE IF Truthy(tool_input) /\ ~IsDict(tool_input) THEN Raise("AttributeError")
       ELSE Ok([content_parts |->
                   acc.content_parts \o <<JStr(summary)>>
                   \o (IF Truthy(tool_output)
                       THEN <<JStr(Lit("fence\n") \o PyStr(tool_output) \o Lit("\nfence"))>>
                       ELSE <<>>),
                message_type |-> "tool_call",
                metadata |-> [k \in {"tool_name"} |-> tool_name]])

\* a slip: a step-start part read like a part of an unknown type
PartTextOfAny(row, acc) ==
    LET part == row.value
        part_type == Get(part, "type", JStr(Lit("text")))
        text == Get(part, "text", JStr(<<>>))
    IN IF row.json # "ok" THEN Ok(acc)
       ELSE IF ~IsDict(part) THEN Raise("AttributeError")
       ELSE IF JEq(part_type, JStr(Lit("tool"))) THEN ToolPart(part, acc)
       ELSE IF JEq(part_type, JStr(Lit("patch")))
       THEN Ok([acc EXCEPT !.content_parts = Append(@, JStr(Lit("[Patch/Edit]"))),
                           !.message_type = "diff"])
       ELSE Ok(IF Truthy(text)
               THEN [acc EXCEPT !.content_parts = Append(@, text)] ELSE acc)

\* the body of the loop over the part files
Part(row, acc) ==
    LET part == row.value
        part_type == Get(part, "type", JStr(Lit("text")))
        text == Get(part, "text", JStr(<<>>))
    IN IF row.json # "ok" THEN Ok(acc)
       ELSE IF ~IsDict(part) THEN Raise("AttributeError")
       ELSE IF JEq(part_type, JStr(Lit("text")))
       THEN Ok(IF Truthy(text)
               THEN [acc EXCEPT !.content_parts = Append(@, text)] ELSE acc)
       ELSE IF JEq(part_type, JStr(Lit("tool"))) THEN ToolPart(part, acc)
       ELSE IF JEq(part_type, JStr(Lit("patch")))
       THEN Ok([acc EXCEPT !.content_parts = Append(@, JStr(Lit("[Patch/Edit]"))),
                           !.message_type = "diff"])
       ELSE IF JEq(part_type, JStr(Lit("step-start"))) THEN Ok(acc)
       ELSE Ok(IF Truthy(text)
               THEN [acc EXCEPT !.content_parts = Append(@, text)] ELSE acc)

RECURSIVE Parts(_, _)

\* the loop goes on with the remaining files unless the part just read raised
PartsAfter(next, files) == IF Raised(next) THEN next ELSE Parts(files, next.val)

\* the loop over sorted(part_dir.glob("prt_*.json"))
Parts(files, acc) ==
    IF files = <<>> THEN Ok(acc) ELSE PartsAfter(Part(Head(files), acc), Tail(files))

\* ---------------------------------------- directory-tree decoder: messages

\* a slip: the finish field left out when the mode is there
FallbackModeOnly(data, role) ==
    LET summary == IF IsDict(Get(data, "summary", EmptyObj))
                   THEN Get(data, "summary", EmptyObj) ELSE EmptyObj
        title == Get(summary, "title", JStr(<<>>))
        mode == Get(data, "mode", JStr(<<>>))
        finish == Get(data, "finish", JStr(<<>>))
    IN IF Truthy(title) THEN title[2]
       ELSE IF JEq(role, JStr(Lit("assistant"))) /\ Truthy(mode)
       THEN Lit("[") \o Lit("mode: ") \o PyStr(mode) \o Lit("]")
       ELSE IF JEq(role, JStr(Lit("assistant"))) /\ Truthy(finish)
       THEN Lit("[") \o Lit("finish: ") \o PyStr(finish) \o Lit("]")
       ELSE <<>>

\* the fallback of _parse_message_file for a message without content
Fallback(data, role) ==
    LET summary == IF IsDict(Get(data, "summary", EmptyObj))
                   THEN Get(data, "summary", EmptyObj) ELSE EmptyObj
        title == Get(summary, "title", JStr(<<>>))
        mode == Get(data, "mode", JStr(<<>>))
        finish == Get(data, "finish", JStr(<<>>))
        parts_info == (IF Truthy(mode) THEN <<Lit("mode: ") \o PyStr(mode)>> ELSE <<>>)
                      \o (IF Truthy(finish) THEN <<Lit("finish: ") \o PyStr(finish)>> ELSE <<>>)
    IN IF Truthy(title) THEN title[2]
       ELSE IF JEq(role, JStr(Lit("assistant"))) /\ (Truthy(mode) \/ Truthy(finish))
       THEN Lit("[") \o Join(parts_info, Lit(", ")) \o Lit("]")
       ELSE <<>>

\* the timestamp of a descriptor: _ms_to_datetime(time_data.get("created"))
Created(data) ==
    LET time_data == Get(data, "time", EmptyObj)
    IN IF ~IsDict(time_data) THEN Raise("AttributeError")
       ELSE IF Get(time_data, "created", JNull)[1] \notin {"null", "num"}
       THEN Raise("TypeError")
       ELSE Ok(MsToDatetime(Get(time_data, "created", JNull)))

\* the content joined from the parts, or the fallback
ContentOf(data, role, joined) ==
    IF joined.val # <<>> THEN joined.val ELSE Fallback(data, role)

\* the Message of a descriptor, given its timestamp and what its parts gave
MessageOf(data, role, timestamp, read, joined) ==
    IF Raised(timestamp) THEN timestamp
    ELSE IF Raised(read) THEN read
    ELSE IF Raised(joined) THEN joined
    ELSE Ok(<<Msg(role[2], ContentOf(data, role, joined), timestamp.val,
                  read.val.message_type, read.val.metadata)>>)

\* "\n".join(content_parts) of what the parts gave
JoinedParts(read) ==
    IF Raised(read) THEN read ELSE JoinValues(read.val.content_parts, Lit("\n"))

\* the descriptor read, then its parts
MessageOfParts(data, read) ==
    MessageOf(data, Get(data, "role", JStr(Lit("user"))), Created(data),
              read, JoinedParts(read))

\* OpenCodeProvider._parse_message_file: val is <<>> for None
ParseMessageFile(file) ==
    IF file.json # "ok" THEN Ok(<<>>)
    ELSE IF ~IsDict(file.value) THEN Raise("AttributeError")
    ELSE MessageOfParts(file.value,
                        IF file.parts.dir THEN Parts(file.parts.files, NoContent)
                        ELSE Ok(NoContent))

\* messages.append(msg) for a file that gave one, unless a file raised
AppendParsed(msg, rest) ==
    IF Raised(msg) THEN msg
    ELSE IF Raised(rest) THEN rest
    ELSE Ok(msg.val \o rest.val)

\* the loop of get_session_messages over sorted(msg_dir.glob("msg_*.json"))
RECURSIVE ParseMessageFiles(_)
ParseMessageFiles(files) ==
    IF files = <<>> THEN Ok(<<>>)
    ELSE AppendParsed(ParseMessageFile(Head(files)), ParseMessageFiles(Tail(files)))

\* m.timestamp or datetime.min: a message without a timestamp sorts first
TimeKey(timestamp) ==
    IF timestamp = None THEN -1 ELSE timestamp[2][1] * 1000 + timestamp[2][2]

\* list.sort(key=...): stable insertion by ascending key
RECURSIVE InsertMessage(_, _)
InsertMessage(sorted, msg) ==
    IF sorted = <<>> THEN <<msg>>
    ELSE IF TimeKey(Head(sorted).timestamp) <= TimeKey(msg.timestamp)
    THEN <<Head(sorted)>> \o InsertMessage(Tail(sorted), msg)
    ELSE <<msg>> \o sorted

\* a slip: the messages left in file order
SortMessagesNot(messages) == messages

RECURSIVE SortMessages(_)
SortMessages(messages) ==
    IF messages = <<>> THEN <<>>
    ELSE InsertMessage(SortMessages(SubSeq(messages, 1, Len(messages) - 1)),
                       messages[Len(messages)])

\* (base / "message" / ses_id).is_dir(): the one session with messages is ses1
MessageFiles(ses_id, root) == IF ses_id = Lit("ses1") THEN root.messages ELSE <<>>

\* messages.sort(...) on the parsed messages, unless a file raised
Sorted(messages) ==
    IF Raised(messages) THEN messages ELSE Ok(SortMessages(messages.val))

\* the messages of the session named by the split id
MessagesOf(parts, root) ==
    IF Len(parts) < 2 \/ parts[1] # Lit("opencode") THEN Ok(<<>>)
    ELSE Sorted(ParseMessageFiles(MessageFiles(parts[2], root)))

\* OpenCodeProvider.get_session_messages
OpenCodeSessionMessages(session_id, root) ==
    MessagesOf(Split(session_id, ":", 1), root)

\* a slip: the project directory put into the id as a scope
ParseSessionFileScoped(row, stem, workspace, root) ==
    LET data == row.value
        ses_id == Get(data, "id", JStr(stem))
        title == Get(data, "title", JStr(Lit("Untitled")))
        directory == Get(data, "directory", JStr(<<>>))
        time_data == Get(data, "time", EmptyObj)
        created == Get(time_data, "created", JNull)
        updated == Get(time_data, "updated", JNull)
    IN IF row.json # "ok" THEN Ok(<<>>)
       ELSE IF ~IsDict(data) THEN Raise("AttributeError")
       ELSE IF ~IsDict(time_data) THEN Raise("AttributeError")
       ELSE IF created[1] \notin {"null", "num"} \/ updated[1] \notin {"null", "num"}
            \/ ~IsStr(ses_id)
       THEN Raise("TypeError")
       ELSE Ok(<<Session(Lit("opencode") \o <<":">> \o workspace \o <<":">> \o ses_id[2],
                         workspace, title[2],
                         Len(MessageFiles(ses_id[2], root)),
                         MsToDatetime(created), MsToDatetime(updated),
                         "opencode", directory[2])>>)

\* OpenCodeProvider._parse_session_file: val is <<>> for None
ParseSessionFile(row, stem, workspace, root) ==
    LET data == row.value
        ses_id == Get(data, "id", JStr(stem))
        title == Get(data, "title", JStr(Lit("Untitled")))
        directory == Get(data, "directory", JStr(<<>>))
        time_data == Get(data, "time", EmptyObj)
        created == Get(time_data, "created", JNull)
        updated == Get(time_data, "updated", JNull)
    IN IF row.json # "ok" THEN Ok(<<>>)
       ELSE IF ~IsDict(data) THEN Raise("AttributeError")
       ELSE IF ~IsDict(time_data) THEN Raise("AttributeError")
       ELSE IF created[1] \notin {"null", "num"} \/ updated[1] \notin {"null", "num"}
            \/ ~IsStr(ses_id)
       THEN Raise("TypeError")
       ELSE Ok(<<Session(Lit("opencode") \o <<":">> \o ses_id[2], workspace, title[2],
                         Len(MessageFiles(ses_id[2], root)),
                         MsToDatetime(created), MsToDatetime(updated),
                         "opencode", directory[2])>>)

\* OpenCodeProvider.list_sessions: the one project directory is p1, and its
\* one session file, when there is one, is ses1.json
OpenCodeSessions(workspace_id, root) ==
    LET project == IF workspace_id # <<>> /\ workspace_id[1] # <<>>
                   THEN workspace_id[1] ELSE Lit("p1")
    IN IF project # Lit("p1") \/ root.session.json = "absent" THEN Ok(<<>>)
       ELSE ParseSessionFile(root.session, Lit("ses1"), project, root)

\* ------------------------------------------------ the fixture session log

FixtureLine1 ==
    JObj([type |-> JStr(<<"u", "s", "e", "r">>), message |-> JObj([role |-> JStr(<<"u", "s",
    "e", "r">>), content |-> JArr(<<JObj([type |-> JStr(<<"t", "e", "x", "t">>), text |->
    JStr(<<"H", "e", "l", "p", " ", "m", "e", " ", "r", "e", "f", "a", "c", "t", "o", "r", " ",
    "t", "h", "e", " ", "a", "u", "t", "h", " ", "m", "o", "d", "u", "l", "e">>)])>>)]),
    timestamp |-> JStr(<<"2", "0", "2", "5", "-", "0", "1", "-", "2", "0", "T", "1", "0", ":",
    "0", "0", ":", "0", "0", "Z">>), uuid |-> JStr(<<"u", "u", "i", "d", "-", "0", "0", "1">>)])

FixtureLine2 ==
    JObj([type |-> JStr(<<"a", "s", "s", "i", "s", "t", "a", "n", "t">>), message |-> JObj([role
    |-> JStr(<<"a", "s", "s", "i", "s", "t", "a", "n", "t">>), content |-> JArr(<<JObj([type |->
    JStr(<<"t", "e", "x", "t">>), text |-> JStr(<<"I", "'", "l", "l", " ", "h", "e", "l", "p",
    " ", "y", "o", "u", " ", "r", "e", "f", "a", "c", "t", "o", "r", " ", "t", "h", "e", " ",
    "a", "u", "t", "h", " ", "m", "o", "d", "u", "l", "e", ".", " ", "L", "e", "t", " ", "m",
    "e", " ", "s", "t", "a", "r", "t", " ", "b", "y", " ", "r", "e", "a", "d", "i", "n", "g",
    " ", "t", "h", "e", " ", "c", "u", "r", "r", "e", "n", "t", " ", "c", "o", "d", "e",
    ".">>)]), JObj([type |-> JStr(<<"t", "o", "o", "l", "_", "u", "s", "e">>), id |->
    JStr(<<"t", "o", "o", "l", "u", "_", "0", "0", "1">>), name |-> JStr(<<"R", "e", "a",
    "d">>), input |-> JObj([file_path |-> JStr(<<"/", "s", "r", "c", "/", "a", "u", "t", "h",
    ".", "t", "s">>)])])>>)]), timestamp |-> JStr(<<"2", "0", "2", "5", "-", "0", "1", "-", "2",
    "0", "T", "1", "0", ":", "0", "0", ":", "3", "0", "Z">>), uuid |-> JStr(<<"u", "u", "i",
    "d", "-", "0", "0", "2">>)])

FixtureLine3 ==
    JObj([type |-> JStr(<<"u", "s", "e", "r">>), message |-> JObj([role |-> JStr(<<"u", "s",
    "e", "r">>), content |-> JArr(<<JObj([type |-> JStr(<<"t", "o", "o", "l", "_", "r", "e",
    "s", "u", "l", "t">>), tool_use_id |-> JStr(<<"t", "o", "o", "l", "u", "_", "0", "0",
    "1">>), content |-> JStr(<<"e", "x", "p", "o", "r", "t", " ", "f", "u", "n", "c", "t", "i",
    "o", "n", " ", "a", "u", "t", "h", "e", "n", "t", "i", "c", "a", "t", "e", "(", "t", "o",
    "k", "e", "n", ":", " ", "s", "t", "r", "i", "n", "g", ")", " ", "{", "\n", " ", " ", "r",
    "e", "t", "u", "r", "n", " ", "j", "w", "t", ".", "v", "e", "r", "i", "f", "y", "(", "t",
    "o", "k", "e", "n", ")", ";", "\n", "}">>), is_error |-> JBool(FALSE)])>>)]), timestamp |->
    JStr(<<"2", "0", "2", "5", "-", "0", "1", "-", "2", "0", "T", "1", "0", ":", "0", "0", ":",
    "3", "1", "Z">>), uuid |-> JStr(<<"u", "u", "i", "d", "-", "0", "0", "3">>)])

FixtureLine4 ==
    JObj([type |-> JStr(<<"a", "s", "s", "i", "s", "t", "a", "n", "t">>), message |-> JObj([role
    |-> JStr(<<"a", "s", "s", "i", "s", "t", "a", "n", "t">>), content |-> JArr(<<JObj([type |->
    JStr(<<"t", "h", "i", "n", "k", "i", "n", "g">>), thinking |-> JStr(<<"I", " ", "n", "e",
    "e", "d", " ", "t", "o", " ", "s", "p", "l", "i", "t", " ", "t", "h", "i", "s", " ", "i",
    "n", "t", "o", " ", "s", "e", "p", "a", "r", "a", "t", "e", " ", "f", "u", "n", "c", "t",
    "i", "o", "n", "s", " ", "f", "o", "r", " ", "v", "a", "l", "i", "d", "a", "t", "i", "o",
    "n", " ", "a", "n", "d", " ", "t", "o", "k", "e", "n", " ", "r", "e", "f", "r", "e", "s",
    "h", ".">>)]), JObj([type |-> JStr(<<"t", "e", "x", "t">>), text |-> JStr(<<"I", " ", "c",
    "a", "n", " ", "s", "e", "e", " ", "t", "h", "e", " ", "a", "u", "t", "h", " ", "m", "o",
    "d", "u", "l", "e", ".", " ", "L", "e", "t", " ", "m", "e", " ", "r", "e", "f", "a", "c",
    "t", "o", "r", " ", "i", "t", " ", "i", "n", "t", "o", " ", "s", "e", "p", "a", "r", "a",
    "t", "e", " ", "c", "o", "n", "c", "e", "r", "n", "s", ".">>)]), JObj([type |-> JStr(<<"t",
    "o", "o", "l", "_", "u", "s", "e">>), id |-> JStr(<<"t", "o", "o", "l", "u", "_", "0", "0",
    "2">>), name |-> JStr(<<"E", "d", "i", "t">>), input |-> JObj([file_path |-> JStr(<<"/",
    "s", "r", "c", "/", "a", "u", "t", "h", ".", "t", "s">>), new_content |-> JStr(<<"r", "e",
    "f", "a", "c", "t", "o", "r", "e", "d", " ", "c", "o", "d", "e", ".", ".", ".">>)])])>>)]),
    timestamp |-> JStr(<<"2", "0", "2", "5", "-", "0", "1", "-", "2", "0", "T", "1", "0", ":",
    "0", "1", ":", "0", "0", "Z">>), uuid |-> JStr(<<"u", "u", "i", "d", "-", "0", "0", "4">>)])

FixtureLine5 ==
    JObj([type |-> JStr(<<"u", "s", "e", "r">>), message |-> JObj([role |-> JStr(<<"u", "s",
    "e", "r">>), content |-> JArr(<<JObj([type |-> JStr(<<"t", "o", "o", "l", "_", "r", "e",
    "s", "u", "l", "t">>), tool_use_id |-> JStr(<<"t", "o", "o", "l", "u", "_", "0", "0",
    "2">>), content |-> JStr(<<"F", "i", "l", "e", " ", "e", "d", "i", "t", "e", "d", " ", "s",
    "u", "c", "c", "e", "s", "s", "f", "u", "l", "l", "y">>), is_error |-> JBool(FALSE)])>>)]),
    timestamp |-> JStr(<<"2", "0", "2", "5", "-", "0", "1", "-", "2", "0", "T", "1", "0", ":",
    "0", "1", ":", "0", "1", "Z">>), uuid |-> JStr(<<"u", "u", "i", "d", "-", "0", "0", "5">>)])

FixtureLine6 ==
    JObj([type |-> JStr(<<"f", "i", "l", "e", "-", "h", "i", "s", "t", "o", "r", "y", "-", "s",
    "n", "a", "p", "s", "h", "o", "t">>), files |-> JArr(<<JObj([path |-> JStr(<<"/", "s", "r",
    "c", "/", "a", "u", "t", "h", ".", "t", "s">>)])>>)])

FixtureLine7 ==
    JObj([type |-> JStr(<<"h", "u", "m", "a", "n">>), message |-> JObj([role |-> JStr(<<"u",
    "s", "e", "r">>), content |-> JArr(<<JObj([type |-> JStr(<<"t", "e", "x", "t">>), text |->
    JStr(<<"L", "o", "o", "k", "s", " ", "g", "o", "o", "d", ",", " ", "n", "o", "w", " ", "s",
    "p", "l", "i", "t", " ", "i", "t", " ", "i", "n", "t", "o", " ", "s", "e", "p", "a", "r",
    "a", "t", "e", " ", "f", "i", "l", "e", "s">>)])>>)]), timestamp |-> JStr(<<"2", "0", "2",
    "5", "-", "0", "1", "-", "2", "0", "T", "1", "0", ":", "0", "5", ":", "0", "0", "Z">>), uuid
    |-> JStr(<<"u", "u", "i", "d", "-", "0", "0", "6">>)])

FixtureLine8 ==
    JObj([type |-> JStr(<<"a", "s", "s", "i", "s", "t", "a", "n", "t">>), message |-> JObj([role
    |-> JStr(<<"a", "s", "s", "i", "s", "t", "a", "n", "t">>), content |-> JArr(<<JObj([type |->
    JStr(<<"t", "o", "o", "l", "_", "u", "s", "e">>), id |-> JStr(<<"t", "o", "o", "l", "u",
    "_", "0", "0", "3">>), name |-> JStr(<<"B", "a", "s", "h">>), input |-> JObj([command |->
    JStr(<<"m", "k", "d", "i", "r", " ", "-", "p", " ", "/", "s", "r", "c", "/", "a", "u", "t",
    "h", "/">>), description |-> JStr(<<"C", "r", "e", "a", "t", "e", " ", "a", "u", "t", "h",
    " ", "d", "i", "r", "e", "c", "t", "o", "r", "y">>)])])>>)]), timestamp |-> JStr(<<"2", "0",
    "2", "5", "-", "0", "1", "-", "2", "0", "T", "1", "0", ":", "0", "5", ":", "3", "0", "Z">>),
    uuid |-> JStr(<<"u", "u", "i", "d", "-", "0", "0", "7">>)])

FixtureLine9 ==
    JObj([type |-> JStr(<<"p", "r", "o", "g", "r", "e", "s", "s">>), data |-> JObj([type |->
    JStr(<<"h", "o", "o", "k", "_", "p", "r", "o", "g", "r", "e", "s", "s">>)])])

FixtureLine10 ==
    JObj([type |-> JStr(<<"s", "u", "m", "m", "a", "r", "y">>), summary |-> JStr(<<"R", "e",
    "f", "a", "c", "t", "o", "r", "e", "d", " ", "a", "u", "t", "h", " ", "m", "o", "d", "u",
    "l", "e", " ", "i", "n", "t", "o", " ", "s", "e", "p", "a", "r", "a", "t", "e", " ", "f",
    "i", "l", "e", "s">>)])

FixtureLine11 ==
    JObj([type |-> JStr(<<"q", "u", "e", "u", "e", "-", "o", "p", "e", "r", "a", "t", "i", "o",
    "n">>), operation |-> JStr(<<"e", "n", "q", "u", "e", "u", "e">>)])

FixtureLine12 ==
    JObj([type |-> JStr(<<"u", "s", "e", "r">>), message |-> JObj([role |-> JStr(<<"u", "s",
    "e", "r">>), content |-> JArr(<<JObj([type |-> JStr(<<"t", "o", "o", "l", "_", "r", "e",
    "s", "u", "l", "t">>), tool_use_id |-> JStr(<<"t", "o", "o", "l", "u", "_", "0", "0",
    "3">>), content |-> JArr(<<JObj([type |-> JStr(<<"t", "e", "x", "t">>), text |-> JStr(<<"C",
    "o", "m", "m", "a", "n", "d", " ", "o", "u", "t", "p", "u", "t", ":", "\n", "D", "i", "r",
    "e", "c", "t", "o", "r", "y", " ", "c", "r", "e", "a", "t", "e", "d">>)]), JObj([type |->
    JStr(<<"i", "m", "a", "g", "e">>), source |-> JObj([type |-> JStr(<<"b", "a", "s", "e", "6",
    "4">>), media_type |-> JStr(<<"i", "m", "a", "g", "e", "/", "p", "n", "g">>), data |->
    JStr(<<"i", "V", "B", "O", "R", "w", "0", "K", "G", "g", "o", "=">>)])])>>), is_error |->
    JBool(FALSE)])>>)]), timestamp |-> JStr(<<"2", "0", "2", "5", "-", "0", "1", "-", "2", "0",
    "T", "1", "0", ":", "0", "5", ":", "3", "1", "Z">>), uuid |-> JStr(<<"u", "u", "i", "d",
    "-", "0", "0", "8">>)])

\* tests/conftest.py, tmp_claude_code_dir: session-001.jsonl
FixtureLog ==
    <<JsonLine(FixtureLine1),
      JsonLine(FixtureLine2),
      JsonLine(FixtureLine3),
      JsonLine(FixtureLine4),
      JsonLine(FixtureLine5),
      JsonLine(FixtureLine6),
      JsonLine(FixtureLine7),
      JsonLine(FixtureLine8),
      JsonLine(FixtureLine9),
      JsonLine(FixtureLine10),
      JsonLine(FixtureLine11),
      JsonLine(FixtureLine12)>>

\* ------------------------------------------------- inputs: session logs

\* all sequences over S of length at most n
SeqsUpTo(S, n) == UNION {[1..m -> S] : m \in 0..n}

Hi == <<"h", "i">>
Yo == <<"y", "o">>
Padded == <<" ", "h", "i", "\n">>
Blank == <<" ", "\t", "\n">>
LongCommand == [i \in 1..(CmdMax + 1) |-> "x"]
IsoEarly == <<"2", "0", "2", "5", "-", "0", "1", "-", "1", "0", "T", "1", "0", ":",
              "0", "0", ":", "0", "0", "Z">>
IsoGood == <<"2", "0", "2", "5", "-", "0", "1", "-", "2", "0", "T", "1", "0", ":",
             "0", "0", ":", "0", "0", "Z">>

TextBlock(t) == JObj([type |-> JStr(Lit("text")), text |-> t])
ThinkingBlock(t) == JObj([type |-> JStr(Lit("thinking")), thinking |-> t])
ToolUseBlock(input) ==
    JObj([type |-> JStr(Lit("tool_use")), id |-> JStr(<<"t", "1">>),
          name |-> JStr(<<"R", "e", "a", "d">>), input |-> input])
ToolResultBlock(content, is_error) ==
    JObj([type |-> JStr(Lit("tool_result")), tool_use_id |-> JStr(<<"t", "1">>),
          content |-> content, is_error |-> JBool(is_error)])
StepBlock == JObj([type |-> JStr(<<"s", "t", "e", "p">>)])

AssistantBlockSamples ==
    {TextBlock(JStr(Hi)), TextBlock(JStr(Yo)), TextBlock(JStr(Blank)),
     ThinkingBlock(JStr(Hi)),
     ToolUseBlock(JObj([file_path |-> JStr(<<"/", "a">>)])),
     ToolUseBlock(JNull)}

UserBlockSamples ==
    {TextBlock(JStr(Hi)), TextBlock(JStr(Yo)), TextBlock(JStr(Blank)),
     ToolResultBlock(JStr(<<"o", "k">>), FALSE),
     ToolResultBlock(JStr(Blank), TRUE),
     ToolResultBlock(JArr(<<TextBlock(JStr(Hi)), JObj([type |-> JStr(Lit("image"))])>>), FALSE)}

StringContents == {JStr(Hi), JStr(Padded), JStr(Blank), JStr(<<>>)}

\* a record with a message whose content is given, and no timestamp
Record(type, content) ==
    JObj([type |-> JStr(type), message |-> JObj([content |-> content])])

\* the same record carrying a timestamp field
Stamped(type, content, timestamp) ==
    JObj([type |-> JStr(type), message |-> JObj([content |-> content]),
          timestamp |-> timestamp])

TimestampSamples == {JNull, JStr(IsoGood), JStr(Hi), JNum(0), JNum(5)}

UserRecords ==
    {Record(t, c) : t \in {Lit("user"), Lit("human")},
                    c \in StringContents
                          \cup {JArr(b) : b \in SeqsUpTo(UserBlockSamples, MaxBlocks)}}

AssistantRecords ==
    {Record(Lit("assistant"), c) :
        c \in StringContents
              \cup {JArr(b) : b \in SeqsUpTo(AssistantBlockSamples, MaxBlocks)}}
    \cup {Record(Lit("assistant"), JArr(<<ToolUseBlock(JObj([command |-> JStr(c)]))>>)) :
            c \in {<<"l", "s">>, LongCommand}}

\* records of the types that carry no message, with and without other fields
OtherTypes == InertTypes \cup {Lit("unknown"), Lit("")}

OtherRecords ==
    {JObj([type |-> JStr(t)]) : t \in OtherTypes}
    \cup {Stamped(t, c, ts) : t \in OtherTypes,
                              c \in {JStr(Hi), JArr(<<TextBlock(JStr(Hi))>>)},
                              ts \in TimestampSamples}
    \cup {JObj([type |-> JStr(t), message |-> JNull]) : t \in OtherTypes}
    \cup {JObj([message |-> JObj([content |-> JStr(Hi)])])}

\* user and assistant records with each kind of timestamp, and records whose
\* message or content is not what the decoder expects
OddRecords ==
    {Stamped(t, c, ts) : t \in {Lit("user"), Lit("human"), Lit("assistant")},
                         c \in {JStr(Hi), JStr(Blank),
                                JArr(<<TextBlock(JStr(Hi)),
                                       ToolUseBlock(JObj([file_path |-> JStr(<<"/", "a">>)]))>>)},
                         ts \in TimestampSamples}
    \cup {JObj([type |-> JStr(t), message |-> m]) :
            t \in {Lit("user"), Lit("assistant")},
            m \in {JNull, EmptyObj, JObj([content |-> JNull]),
                   JObj([content |-> JArr(<<TextBlock(JNull)>>)]),
                   JObj([content |-> JArr(<<StepBlock>>)]),
                   JObj([content |-> JArr(<<JObj([type |-> JStr(Lit("tool_use")),
                                                  name |-> JStr(<<>>)])>>)]),
                   JObj([content |-> JArr(<<JStr(Hi), JStr(Blank), JNum(5)>>)])}}

\* values that are valid JSON and no object
NonObjects == {JNum(42), JStr(Hi), JArr(<<>>), JNull}

Records == UserRecords \cup AssistantRecords \cup OtherRecords \cup OddRecords

\* the lines short logs are made of
LineSamples ==
    {BlankLine, BadLine, JsonLine(JNum(42)),
     JsonLine(Record(Lit("user"), JStr(Hi))),
     JsonLine(Record(Lit("assistant"),
                     JArr(<<ToolUseBlock(JObj([file_path |-> JStr(<<"/", "a">>)])),
                            TextBlock(JStr(Yo))>>))),
     JsonLine(JObj([type |-> JStr(Lit("progress"))])),
     JsonLine(Stamped(Lit("user"), JArr(<<ToolResultBlock(JStr(<<"o", "k">>), FALSE)>>),
                      JStr(IsoGood))),
     JsonLine(Stamped(Lit("user"), JStr(Yo), JStr(IsoEarly)))}

Logs ==
    {<<JsonLine(r)>> : r \in Records \cup NonObjects}
    \cup SeqsUpTo(LineSamples, MaxLines)
    \cup {FixtureLog}

ClaudeIds ==
    {IdOf(<<Lit("claude"), Lit("p1"), Lit("s1")>>),
     IdOf(<<Lit("claude"), Lit("p1"), Lit("c1")>>),
     IdOf(<<Lit("claude"), Lit("w1"), Lit("s1")>>),
     IdOf(<<Lit("claude"), Lit("p1"), Lit("s1"), Lit("s1")>>),
     IdOf(<<Lit("cursor"), Lit("p1"), Lit("s1")>>),
     IdOf(<<Lit("opencode"), Lit("s1")>>),
     IdOf(<<Lit("claude"), Lit("p1")>>),
     IdOf(<<Lit(""), Lit("p1"), Lit("s1")>>),
     IdOf(<<Lit("s1")>>), IdOf(<<>>)}

NoCall == [op |-> "none", backend |-> "none", arg |-> <<>>]

\* the three provider classes, by their name attribute
BackendNames == {"cursor", "claude_code", "opencode"}

\* a backend called directly: every root is a directory, the server process
\* has answered no request and its cache is empty (server.py:18)
Undetected ==
    /\ sibling = NoDir
    /\ conns = 0
    /\ roots = [b \in BackendNames |-> "dir"]
    /\ providers = None
    /\ detections = 0
    /\ requests = 0

\* ------------------------------------------- the log-stream backend called

\* ClaudeCodeProvider.get_session_messages(session_id)
ClaudeGetSessionMessages(session_id) ==
    /\ call' = [op |-> "get_session_messages", backend |-> "claude_code",
                arg |-> session_id]
    /\ outcome' = ClaudeSessionMessages(session_id, log)
    /\ UNCHANGED <<disk, registry, conns>>

InitLog ==
    /\ log \in Logs
    /\ index = NoFile
    /\ kv = NoKeys
    /\ chatdata = NoFile
    /\ tree = NoTree
    /\ Undetected
    /\ call = NoCall
    /\ outcome = Ok(<<>>)

NextLog == \E session_id \in ClaudeIds : ClaudeGetSessionMessages(session_id)

SpecLog == InitLog /\ [][NextLog]_vars

\* ---------------------------------------------- keyed-store inputs

\* a generation entry; a null unixMs is the key left out
Gen(unixMs, type, textDescription) ==
    JObj(IF unixMs = JNull
         THEN [k \in {"type", "textDescription"} |->
                 IF k = "type" THEN JStr(Lit(type)) ELSE JStr(textDescription)]
         ELSE [k \in {"unixMs", "type", "textDescription"} |->
                 IF k = "unixMs" THEN unixMs
                 ELSE IF k = "type" THEN JStr(Lit(type)) ELSE JStr(textDescription)])

GenSamples ==
    {Gen(JNum(1), "cmdk", <<"b">>), Gen(JNum(2), "composer", <<"b">>),
     Gen(JNum(3), "composer", <<"a">>), Gen(JNum(4), "composer", <<"b">>),
     Gen(JNull, "composer", <<"a">>)}

\* an entry that is no object, an empty summary and two equal timestamps
MixedGens ==
    <<JNum(7), Gen(JNum(2), "composer", <<>>), Gen(JNum(2), "composer", <<"b">>)>>

GenerationRows ==
    {JsonRow(JArr(gens)) : gens \in SeqsUpTo(GenSamples, MaxGens)}
    \cup {NoRow, JsonRow(JArr(MixedGens))}

Prompt(text) == JObj([k \in {"text"} |-> JStr(text)])

PromptPool == <<Prompt(<<"p">>), Prompt(<<"q">>), Prompt(<<"r">>), Prompt(<<"s">>)>>

\* an entry with an empty text and an entry that is no object
MixedPrompts == <<Prompt(<<>>), JStr(<<"x">>), Prompt(<<"p">>)>>

PromptRows ==
    {JsonRow(JArr(Take(PromptPool, n))) : n \in 0..MaxPrompts}
    \cup {NoRow, JsonRow(JArr(MixedPrompts)), JsonRow(JNum(5))}

\* a composer entry; null bounds and an empty name are keys left out
Composer(composerId, name, createdAt, lastUpdatedAt) ==
    LET keys == {"composerId"}
                \cup (IF name = <<>> THEN {} ELSE {"name"})
                \cup (IF createdAt = JNull THEN {} ELSE {"createdAt"})
                \cup (IF lastUpdatedAt = JNull THEN {} ELSE {"lastUpdatedAt"})
    IN JObj([k \in keys |->
               CASE k = "composerId" -> JStr(composerId)
                 [] k = "name" -> JStr(name)
                 [] k = "createdAt" -> createdAt
                 [] k = "lastUpdatedAt" -> lastUpdatedAt])

ComposerLists ==
    {<<Composer(Lit("c1"), <<>>, createdAt, lastUpdatedAt)>> :
        createdAt \in {JNull, JNum(2)}, lastUpdatedAt \in {JNull, JNum(3)}}
    \cup {<<Composer(Lit("c1"), <<>>, JNum(2), JNum(3)),
            Composer(Lit("c2"), <<>>, JNum(4), JNum(4))>>,
          <<Composer(Lit("c1"), Lit("Fix"), JNull, JNull),
            Composer(Lit("c2"), <<>>, JNum(3), JNull)>>,
          <<Composer(<<>>, <<>>, JNull, JNull),
            Composer(Lit("c1"), <<>>, JNum(2), JNum(3))>>}

ComposerRows ==
    {JsonRow(JObj([k \in {"allComposers"} |-> JArr(composers)])) :
        composers \in ComposerLists}
    \cup {NoRow, BadRow, JsonRow(JArr(<<>>)), JsonRow(EmptyObj)}

StoreKeys == {"composer.composerData", "aiService.prompts", "aiService.generations"}

Stores ==
    {[k \in StoreKeys |->
        CASE k = "composer.composerData" -> c
          [] k = "aiService.prompts" -> p
          [] k = "aiService.generations" -> g] :
     c \in ComposerRows, p \in PromptRows, g \in GenerationRows}

CursorIds ==
    {IdOf(<<Lit("cursor"), Lit("w1"), Lit("c1")>>),
     IdOf(<<Lit("cursor"), Lit("w1"), Lit("c2")>>),
     IdOf(<<Lit("cursor"), Lit("w1"), Lit("s1")>>),
     IdOf(<<Lit("cursor"), Lit("p1"), Lit("c1")>>),
     IdOf(<<Lit("cursor"), Lit("global"), Lit("c1")>>),
     IdOf(<<Lit("cursor"), Lit("w1")>>),
     IdOf(<<Lit("claude"), Lit("w1"), Lit("c1")>>),
     IdOf(<<Lit("c1")>>)}

\* workspace_id of list_sessions: None, an existing and a missing workspace
WorkspaceIds == {<<>>, <<Lit("w1")>>, <<Lit("p1")>>}

\* ------------------------------------------- the keyed-store backend called

\* CursorProvider.get_session_messages(session_id)
CursorGetSessionMessages(session_id) ==
    /\ conns + MessagesUnclosed(session_id, kv) <= MaxConns
    /\ call' = [op |-> "get_session_messages", backend |-> "cursor",
                arg |-> session_id]
    /\ outcome' = CursorSessionMessages(session_id, kv)
    /\ conns' = conns + MessagesUnclosed(session_id, kv)
    /\ UNCHANGED <<disk, registry>>

\* CursorProvider.list_sessions(workspace_id)
CursorListSessions(workspace_id) ==
    /\ conns + ListUnclosed(workspace_id, kv) <= MaxConns
    /\ call' = [op |-> "list_sessions", backend |-> "cursor", arg |-> workspace_id]
    /\ outcome' = CursorSessions(workspace_id, kv)
    /\ conns' = conns + ListUnclosed(workspace_id, kv)
    /\ UNCHANGED <<disk, registry>>

\* the interpreter finalizes the connections that were left open: the
\* exception, its traceback and the frame refer to each other, so this
\* happens when the cycle collector next runs, some time after the return
Collect ==
    /\ conns > 0
    /\ conns' = 0
    /\ UNCHANGED <<disk, registry, call, outcome>>

InitKV ==
    /\ log = <<>>
    /\ index = NoFile
    /\ kv \in Stores
    /\ chatdata = NoFile
    /\ tree = NoTree
    /\ Undetected
    /\ call = NoCall
    /\ outcome = Ok(<<>>)

NextKV ==
    \/ \E session_id \in CursorIds : CursorGetSessionMessages(session_id)
    \/ \E workspace_id \in WorkspaceIds : CursorListSessions(workspace_id)

SpecKV == InitKV /\ [][NextKV]_vars

\* ------------------------------------------------- global chat store inputs

\* a bubble; an empty type and a null text are keys left out
Bubble(type, text) ==
    LET keys == (IF type = "" THEN {} ELSE {"type"})
                \cup (IF text = JNull THEN {} ELSE {"text"})
    IN JObj([k \in keys |-> IF k = "type" THEN JStr(Lit(type)) ELSE text])

LongText == [i \in 1..(TitleMax + 1) |-> "y"]

BubbleSamples ==
    {Bubble("user", JStr(<<"p">>)), Bubble("ai", JStr(<<"a">>)),
     Bubble("", JStr(<<"q">>)), Bubble("user", JNull), Bubble("assistant", JStr(<<>>))}

BubbleLists == SeqsUpTo(BubbleSamples, MaxBubbles)

\* a tab; an empty id is the key left out
Tab(tabId, bubbles) ==
    IF tabId = ""
    THEN JObj([k \in {"bubbles"} |-> JArr(bubbles)])
    ELSE JObj([k \in {"tabId", "bubbles"} |->
                 IF k = "tabId" THEN JStr(Lit(tabId)) ELSE JArr(bubbles)])

OtherBubbles == <<Bubble("ai", JStr(<<"z">>)), Bubble("user", JStr(LongText))>>

\* one tab, two tabs, two tabs of the same id, a tab without an id
TabLists ==
    {<<Tab("t1", bubbles)>> : bubbles \in BubbleLists}
    \cup {<<Tab("t2", OtherBubbles), Tab("t1", bubbles)>> : bubbles \in BubbleLists}
    \cup {<<Tab("t1", bubbles), Tab("t1", OtherBubbles)>> : bubbles \in BubbleLists}
    \cup {<<Tab("", OtherBubbles), Tab("t2", <<>>)>>,
          <<JObj([k \in {"tabId"} |-> JStr(Lit("t1"))])>>, <<>>}

ChatRows ==
    {JsonRow(JObj([k \in {"tabs"} |-> JArr(tabs)])) : tabs \in TabLists}
    \cup {NoFile, NoRow, BadRow, JsonRow(JArr(<<>>)), JsonRow(EmptyObj)}

\* the workspace store beside the global one: nothing, or one composer
NoStore == [k \in StoreKeys |-> NoRow]

OneComposerStore ==
    [k \in StoreKeys |->
        CASE k = "composer.composerData" ->
               JsonRow(JObj([a \in {"allComposers"} |->
                   JArr(<<Composer(Lit("c1"), <<>>, JNum(2), JNum(3))>>)]))
          [] k = "aiService.prompts" -> JsonRow(JArr(<<Prompt(<<"p">>)>>))
          [] k = "aiService.generations" ->
               JsonRow(JArr(<<Gen(JNum(2), "composer", <<"b">>)>>))]

\* a store without an ItemTable: every query raises
NoTableStore == [k \in StoreKeys |-> QueryRaises]

\* the store is locked when the prompts are read
LockedStore == [OneComposerStore EXCEPT !["aiService.prompts"] = QueryRaises]

GlobalIds ==
    {IdOf(<<Lit("cursor"), Lit("global"), Lit("t1")>>),
     IdOf(<<Lit("cursor"), Lit("global"), Lit("t2")>>),
     IdOf(<<Lit("cursor"), Lit("global"), Lit("c1")>>),
     IdOf(<<Lit("cursor"), Lit("global")>>),
     IdOf(<<Lit("cursor"), Lit("w1"), Lit("c1")>>),
     IdOf(<<Lit("cursor"), Lit("w1"), Lit("t1")>>)}

GlobalWorkspaceIds == WorkspaceIds \cup {<<Lit("global")>>}

InitGlobal ==
    /\ log = <<>>
    /\ index = NoFile
    /\ kv \in {NoStore, OneComposerStore, NoTableStore, LockedStore}
    /\ chatdata \in ChatRows \cup {QueryRaises}
    /\ tree = NoTree
    /\ Undetected
    /\ call = NoCall
    /\ outcome = Ok(<<>>)

NextGlobal ==
    \/ \E session_id \in GlobalIds : CursorGetSessionMessages(session_id)
    \/ \E workspace_id \in GlobalWorkspaceIds : CursorListSessions(workspace_id)
    \/ Collect

SpecGlobal == InitGlobal /\ [][NextGlobal]_vars

\* -------------------------------------------------- directory-tree inputs

TextPart(text) ==
    JsonRow(JObj([k \in {"type", "text"} |->
                    IF k = "type" THEN JStr(Lit("text")) ELSE JStr(text)]))

\* a tool part; an empty pattern and an empty output are keys left out
ToolPartFile(pattern, output) ==
    LET input == IF pattern = <<>> THEN EmptyObj
                 ELSE JObj([k \in {"pattern"} |-> JStr(pattern)])
        state == IF output = <<>> THEN JObj([k \in {"input"} |-> input])
                 ELSE JObj([k \in {"input", "output"} |->
                              IF k = "input" THEN input ELSE JStr(output)])
    IN JsonRow(JObj([k \in {"type", "tool", "state"} |->
                       CASE k = "type" -> JStr(Lit("tool"))
                         [] k = "tool" -> JStr(Lit("grep"))
                         [] k = "state" -> state]))

PatchPart == JsonRow(JObj([k \in {"type"} |-> JStr(Lit("patch"))]))

\* a step-start part that also carries a text
StepStartPart ==
    JsonRow(JObj([k \in {"type", "text"} |->
                    IF k = "type" THEN JStr(Lit("step-start")) ELSE JStr(<<"s">>)]))

\* a part of a type the decoder does not know
OtherPart ==
    JsonRow(JObj([k \in {"type", "text"} |->
                    IF k = "type" THEN JStr(Lit("unknown")) ELSE JStr(<<"u">>)]))

PartSamples ==
    {TextPart(<<"a">>), TextPart(<<>>), TextPart(<<" ">>),
     ToolPartFile(<<"x">>, <<"o">>), ToolPartFile(<<>>, <<>>),
     PatchPart, StepStartPart, OtherPart, BadRow}

\* a message descriptor; empty role, title, mode, finish and a null created
\* are keys left out
Descriptor(id, role, title, mode, finish, created) ==
    LET keys == {"id"}
                \cup (IF role = "" THEN {} ELSE {"role"})
                \cup (IF title = <<>> THEN {} ELSE {"summary"})
                \cup (IF mode = "" THEN {} ELSE {"mode"})
                \cup (IF finish = "" THEN {} ELSE {"finish"})
                \cup (IF created = JNull THEN {} ELSE {"time"})
    IN JsonRow(JObj([k \in keys |->
           CASE k = "id" -> JStr(Lit(id))
             [] k = "role" -> JStr(Lit(role))
             [] k = "summary" -> JObj([a \in {"title"} |-> JStr(title)])
             [] k = "mode" -> JStr(Lit(mode))
             [] k = "finish" -> JStr(Lit(finish))
             [] k = "time" -> JObj([a \in {"created"} |-> created])]))

\* legacy messages: no part directory
LegacyFiles ==
    {MsgFile(Descriptor("m1", role, title, mf[1], mf[2], JNum(1)), NoParts) :
        role \in {"", "user", "assistant"}, title \in {<<>>, <<"t">>},
        mf \in {<<"", "">>, <<"code", "stop">>, <<"code", "">>, <<"", "stop">>}}

\* messages with a part directory
ModernFiles ==
    {MsgFile(Descriptor("m1", role, <<>>, "", "", JNum(1)), PartDir(files)) :
        role \in {"user", "assistant"}, files \in SeqsUpTo(PartSamples, MaxParts)}
    \cup {MsgFile(Descriptor("m1", "assistant", <<"t">>, "code", "stop", JNum(1)),
                  PartDir(<<StepStartPart>>))}

\* messages that differ in their timestamps
TimedFiles ==
    {MsgFile(Descriptor("m1", "user", <<"t">>, "", "", created), NoParts) :
        created \in {JNull, JNum(1), JNum(2), JNum(3)}}
    \cup {MsgFile(Descriptor("m2", "assistant", <<>>, "code", "stop", JNum(2)), NoParts),
          MsgFile(BadRow, NoParts)}

MessageDirs ==
    {<<file>> : file \in LegacyFiles \cup ModernFiles}
    \cup SeqsUpTo(TimedFiles, MaxMsgs)
    \cup {<<MsgFile(JsonRow(JNum(5)), NoParts)>>}

\* a session descriptor; an empty id and an empty title are keys left out
SessionFile(id, title) ==
    LET keys == {"directory", "time"}
                \cup (IF id = "" THEN {} ELSE {"id"})
                \cup (IF title = <<>> THEN {} ELSE {"title"})
    IN JsonRow(JObj([k \in keys |->
           CASE k = "id" -> JStr(Lit(id))
             [] k = "title" -> JStr(title)
             [] k = "directory" -> JStr(Lit("/w"))
             [] k = "time" -> JObj([a \in {"created"} |-> JNum(1)])]))

SessionRows ==
    {SessionFile("ses1", <<"t">>), SessionFile("", <<>>), SessionFile("m1", LongText),
     NoRow, BadRow}

Trees == {[session |-> row, messages |-> files] :
            row \in SessionRows, files \in MessageDirs}

OpenCodeIds ==
    {IdOf(<<Lit("opencode"), Lit("ses1")>>),
     IdOf(<<Lit("opencode"), Lit("m1")>>),
     IdOf(<<Lit("opencode"), Lit("p1"), Lit("ses1")>>),
     IdOf(<<Lit("claude"), Lit("ses1")>>),
     IdOf(<<Lit("ses1")>>)}

\* ---------------------------------------- the directory-tree backend called

\* OpenCodeProvider.get_session_messages(session_id)
OpenCodeGetSessionMessages(session_id) ==
    /\ call' = [op |-> "get_session_messages", backend |-> "opencode",
                arg |-> session_id]
    /\ outcome' = OpenCodeSessionMessages(session_id, tree)
    /\ UNCHANGED <<disk, registry, conns>>

\* OpenCodeProvider.list_sessions(workspace_id)
OpenCodeListSessions(workspace_id) ==
    /\ call' = [op |-> "list_sessions", backend |-> "opencode", arg |-> workspace_id]
    /\ outcome' = OpenCodeSessions(workspace_id, tree)
    /\ UNCHANGED <<disk, registry, conns>>

InitTree ==
    /\ log = <<>>
    /\ index = NoFile
    /\ kv = NoKeys
    /\ chatdata = NoFile
    /\ tree \in Trees
    /\ Undetected
    /\ call = NoCall
    /\ outcome = Ok(<<>>)

NextTree ==
    \/ \E session_id \in OpenCodeIds : OpenCodeGetSessionMessages(session_id)
    \/ \E workspace_id \in WorkspaceIds : OpenCodeListSessions(workspace_id)

SpecTree == InitTree /\ [][NextTree]_vars

\* ---------------------------------------------- session-listing inputs

\* an entry of sessions-index.json; an empty id and null fields are keys left out
IndexEntry(sessionId, firstPrompt, summary, created) ==
    LET keys == (IF sessionId = <<>> THEN {} ELSE {"sessionId"})
                \cup (IF firstPrompt = JNull THEN {} ELSE {"firstPrompt"})
                \cup (IF summary = JNull THEN {} ELSE {"summary"})
                \cup (IF created = JNull THEN {} ELSE {"created", "messageCount"})
    IN JObj([k \in keys |->
               CASE k = "sessionId" -> JStr(sessionId)
                 [] k = "firstPrompt" -> firstPrompt
                 [] k = "summary" -> summary
                 [] k = "created" -> created
                 [] k = "messageCount" -> JNum(3)])

EntrySamples ==
    {IndexEntry(Lit("s1"), JStr(Hi), JStr(Yo), JStr(IsoGood)),
     IndexEntry(Lit("s1"), JNull, JStr(Yo), JNull),
     IndexEntry(Lit("c1"), JNull, JNull, JNull),
     IndexEntry(Lit("s1"), JStr(LongText), JNull, JNull),
     IndexEntry(Lit("s1"), JStr(<<>>), JStr(LongText), JNull),
     IndexEntry(<<>>, JStr(Hi), JNull, JNull),
     IndexEntry(Lit("s1"), JNum(5), JNull, JNull),
     IndexEntry(Lit("s1"), JStr(Hi), JNull, JNum(5)),
     JNum(42)}

IndexRows ==
    {JsonRow(JArr(entries)) : entries \in SeqsUpTo(EntrySamples, MaxEntries)}
    \cup {NoFile, BadRow, JsonRow(EmptyObj)}

\* the session logs the scan reads its titles from
ScanLogs ==
    SeqsUpTo(LineSamples, MaxLines)
    \cup {<<JsonLine(r)>> : r \in OddRecords}
    \cup {<<JsonLine(Record(Lit("user"), JStr(LongText)))>>,
          <<JsonLine(Record(Lit("user"), JStr(<<>>))),
            JsonLine(Record(Lit("human"), JArr(<<TextBlock(JStr(Hi)), JStr(Yo)>>)))>>}

\* workspace stores of one composer: its name, and the first prompt
NamedStores ==
    {[k \in StoreKeys |->
        CASE k = "composer.composerData" ->
               JsonRow(JObj([a \in {"allComposers"} |->
                   JArr(<<Composer(Lit("c1"), name, JNum(2), JNum(3))>>)]))
          [] k = "aiService.prompts" -> prompts
          [] k = "aiService.generations" ->
               JsonRow(JArr(<<Gen(JNum(2), "composer", <<"b">>)>>))] :
     name \in {<<>>, Lit("Fix"), LongText},
     prompts \in {NoRow, JsonRow(JArr(<<Prompt(<<"p">>)>>)), JsonRow(JArr(<<Prompt(LongText)>>))}}

ListedTrees ==
    {[session |-> row, messages |-> files] :
        row \in SessionRows,
        files \in {<<>>, <<MsgFile(Descriptor("m1", "user", <<"t">>, "", "", JNum(1)), NoParts)>>}}

\* ------------------------------------------------- list_sessions called

\* ClaudeCodeProvider.list_sessions(workspace_id)
ClaudeListSessions(workspace_id) ==
    /\ call' = [op |-> "list_sessions", backend |-> "claude_code", arg |-> workspace_id]
    /\ outcome' = ClaudeSessions(workspace_id, index, log)
    /\ UNCHANGED <<disk, registry, conns>>

\* one backend's storage holds data, the other two are empty
InitSessions ==
    /\ \/ /\ log \in ScanLogs /\ index = NoFile
          /\ kv = NoStore /\ chatdata = NoFile /\ tree = NoTree
       \/ /\ log = <<JsonLine(Record(Lit("user"), JStr(Hi)))>> /\ index \in IndexRows
          /\ kv = NoStore /\ chatdata = NoFile /\ tree = NoTree
       \/ /\ log = <<>> /\ index = NoFile
          /\ kv \in NamedStores /\ chatdata \in {NoFile, NoRow} /\ tree = NoTree
       \/ /\ log = <<>> /\ index = NoFile
          /\ kv = NoStore /\ chatdata \in ChatRows /\ tree = NoTree
       \/ /\ log = <<>> /\ index = NoFile
          /\ kv = NoStore /\ chatdata = NoFile /\ tree \in ListedTrees
    /\ Undetected
    /\ call = NoCall
    /\ outcome = Ok(<<>>)

NextSessions ==
    \/ \E workspace_id \in WorkspaceIds : ClaudeListSessions(workspace_id)
    \/ \E workspace_id \in GlobalWorkspaceIds : CursorListSessions(workspace_id)
    \/ \E workspace_id \in WorkspaceIds : OpenCodeListSessions(workspace_id)

SpecSessions == InitSessions /\ [][NextSessions]_vars

\* ------------------------------------- the log-stream root of two projects

\* sessions-index.json of p2: no directory p2, one session, a file that is
\* not JSON, a file that is not UTF-8
SiblingRows ==
    {NoDir, BadRow, Undecodable,
     JsonRow(JArr(<<IndexEntry(Lit("s2"), JStr(Hi), JNull, JNull)>>)),
     JsonRow(JArr(<<IndexEntry(Lit("s2"), JNum(5), JNull, JNull)>>))}

ProjectIds == {<<>>, <<Lit("p1")>>, <<Lit("p2")>>}

InitProjects ==
    /\ log \in {<<>>, <<JsonLine(Record(Lit("user"), JStr(Hi)))>>}
    /\ index \in IndexRows \cup {Undecodable, Unreadable}
    /\ sibling \in SiblingRows
    /\ kv = NoStore
    /\ chatdata = NoFile
    /\ tree = NoTree
    /\ conns = 0
    /\ roots = [b \in BackendNames |-> "dir"]
    /\ providers = None
    /\ detections = 0
    /\ requests = 0
    /\ call = NoCall
    /\ outcome = Ok(<<>>)

NextProjects ==
    \E workspace_id \in ProjectIds : ClaudeListSessions(workspace_id)

SpecProjects == InitProjects /\ [][NextProjects]_vars

\* ------------------------------------------------------ provider registry

\* requests the process answers in a run
MaxRequests == 3

\* what ProviderClass() and provider.is_available() do for a backend:
\* "dir": the storage root is a directory; "missing": it is not;
\* "ctor_raises": the constructor raises; "check_raises": get_base_path or
\* is_dir raises (no home directory, no permission on a parent)
RootStates == {"dir", "missing", "ctor_raises", "check_raises"}

\* [CursorProvider, ClaudeCodeProvider, OpenCodeProvider]
ProviderClasses == <<"cursor", "claude_code", "opencode">>

\* provider = ProviderClass()
Construct(b, r) == IF r[b] = "ctor_raises" THEN Raise("Exception") ELSE Ok(b)

\* provider.is_available(): self.get_base_path().is_dir()
IsAvailable(b, r) ==
    IF r[b] = "check_raises" THEN Raise("OSError") ELSE Ok(r[b] = "dir")

\* the loop without its try/except: the first exception leaves the function
RECURSIVE DetectFromUnguarded(_, _, _)
DetectFromUnguarded(classes, r, provs) ==
    IF classes = <<>> THEN Ok(provs)
    ELSE LET b == Head(classes)
             available == IF r[b] = "ctor_raises" THEN Raise("Exception")
                          ELSE IF r[b] = "check_raises" THEN Raise("OSError")
                          ELSE Ok(r[b] = "dir")
         IN IF available.exc # "none" THEN available
            ELSE IF available.val
                 THEN DetectFromUnguarded(Tail(classes), r, Append(provs, b))
                 ELSE DetectFromUnguarded(Tail(classes), r, provs)

\* the loop of get_available_providers from the class `classes` on, with the
\* providers appended so far
RECURSIVE DetectFrom(_, _, _)
DetectFrom(classes, r, provs) ==
    IF classes = <<>> THEN Ok(provs)
    ELSE LET b == Head(classes)
             provider == Construct(b, r)
             available == IF Raised(provider) THEN provider ELSE IsAvailable(b, r)
         IN IF Raised(available) THEN DetectFrom(Tail(classes), r, provs)
            ELSE IF available.val
                 THEN DetectFrom(Tail(classes), r, Append(provs, b))
                 ELSE DetectFrom(Tail(classes), r, provs)

\* get_available_providers(): the names of the providers it returns
GetAvailableProviders(r) == DetectFrom(ProviderClasses, r, <<>>)

\* _providers holding a list
Cached(names) == <<"list", names>>

\* `if not _providers` in place of `if _providers is None`: an empty list is
\* detected again
GetProvidersWhenEmpty(cache, r) ==
    IF cache = <<"none", 0>> \/ cache = <<"list", <<>>>>
    THEN LET found == DetectFrom(ProviderClasses, r, <<>>)
         IN IF found.exc # "none"
            THEN [cache |-> cache, ran |-> 1, result |-> found]
            ELSE [cache |-> <<"list", found.val>>, ran |-> 1, result |-> found]
    ELSE [cache |-> cache, ran |-> 0, result |-> [exc |-> "none", val |-> cache[2]]]

\* _get_providers(): the new value of _providers, whether detection ran, and
\* the list returned (or the exception that left the function)
GetProviders(cache, r) ==
    IF cache = None
    THEN LET found == GetAvailableProviders(r)
         IN IF Raised(found)
            THEN [cache |-> cache, ran |-> 1, result |-> found]
            ELSE [cache |-> Cached(found.val), ran |-> 1, result |-> found]
    ELSE [cache |-> cache, ran |-> 0, result |-> Ok(cache[2])]

\* get_available_providers() called on the roots as they are
CallGetAvailableProviders ==
    /\ call' = [op |-> "get_available_providers", backend |-> "registry",
                arg |-> roots]
    /\ outcome' = GetAvailableProviders(roots)
    /\ UNCHANGED <<disk, registry, conns>>

\* GET /api/sources: [p.name for p in _get_providers()]
GetSources ==
    /\ requests < MaxRequests
    /\ LET got == GetProviders(providers, roots)
       IN /\ providers' = got.cache
          /\ detections' = detections + got.ran
          /\ outcome' = got.result
    /\ requests' = requests + 1
    /\ call' = [op |-> "get_sources", backend |-> "server", arg |-> roots]
    /\ UNCHANGED <<disk, roots, conns>>

\* outside the process: a storage root appears, disappears or becomes
\* unreadable
RootChanges(b, state) ==
    /\ roots[b] # state
    /\ roots' = [roots EXCEPT ![b] = state]
    /\ UNCHANGED <<disk, conns, providers, detections, requests, call, outcome>>

InitRegistry ==
    /\ log = <<>>
    /\ index = NoFile
    /\ sibling = NoDir
    /\ conns = 0
    /\ kv = NoStore
    /\ chatdata = NoFile
    /\ tree = NoTree
    /\ roots \in [BackendNames -> RootStates]
    /\ providers = None
    /\ detections = 0
    /\ requests = 0
    /\ call = NoCall
    /\ outcome = Ok(<<>>)

NextRegistry ==
    \/ CallGetAvailableProviders
    \/ GetSources
    \/ \E b \in BackendNames, state \in RootStates : RootChanges(b, state)

SpecRegistry == InitRegistry /\ [][NextRegistry]_vars

\* ------------------------------------------------ the session route

\* a slip: the tag itself is taken for the provider name
SourceMapByTag(source) ==
    CASE source = <<"c", "u", "r", "s", "o", "r">> -> "cursor"
      [] source = <<"c", "l", "a", "u", "d", "e">> -> "claude"
      [] source = <<"o", "p", "e", "n", "c", "o", "d", "e">> -> "opencode"
      [] OTHER -> ""

\* source_map.get(source): the provider name of a tag, "" for None
SourceMap(source) ==
    CASE source = Lit("cursor") -> "cursor"
      [] source = Lit("claude") -> "claude_code"
      [] source = Lit("opencode") -> "opencode"
      [] OTHER -> ""

\* session_id.split(":")[0] if ":" in session_id else ""
SourceOf(session_id) ==
    IF \E i \in 1..Len(session_id) : session_id[i] = ":"
    THEN Split(session_id, ":", Len(session_id))[1]
    ELSE <<>>

\* _find_provider: whether a provider of that name is in the list
FindProvider(names, source) == \E i \in 1..Len(names) : names[i] = source

\* provider.get_session_messages(session_id) of the provider named b
ProviderMessages(b, session_id) ==
    CASE b = "cursor" -> CursorSessionMessages(session_id, kv)
      [] b = "claude_code" -> ClaudeSessionMessages(session_id, log)
      [] b = "opencode" -> OpenCodeSessionMessages(session_id, tree)

\* msg.timestamp.isoformat() if msg.timestamp else None
IsoFormatOf(timestamp) ==
    IF timestamp = None THEN None ELSE <<"isoformat", timestamp[2]>>

\* _message_to_dict
MessageToDict(msg) ==
    [role |-> msg.role, content |-> msg.content,
     timestamp |-> IsoFormatOf(msg.timestamp),
     message_type |-> msg.message_type, metadata |-> msg.metadata]

\* the try/except round the provider call and the response: 500 when the
\* provider raised, else the id and the messages as dicts
Respond(session_id, messages) ==
    IF Raised(messages) THEN Raise("HTTP500")
    ELSE Ok(<<session_id, [i \in 1..Len(messages.val) |-> MessageToDict(messages.val[i])]>>)

\* what get_session does after the tag is mapped: the new value of
\* _providers, whether detection ran, the provider invoked and the response
RouteTo(provider_name, session_id, got) ==
    IF Raised(got.result)
    THEN [cache |-> got.cache, ran |-> got.ran, invoked |-> "none", result |-> got.result]
    ELSE IF ~FindProvider(got.result.val, provider_name)
    THEN [cache |-> got.cache, ran |-> got.ran, invoked |-> "none",
          result |-> Raise("HTTP404")]
    ELSE [cache |-> got.cache, ran |-> got.ran, invoked |-> provider_name,
          result |-> Respond(session_id, ProviderMessages(provider_name, session_id))]

\* server.get_session
GetSessionOf(session_id, cache, r) ==
    IF SourceMap(SourceOf(session_id)) = ""
    THEN [cache |-> cache, ran |-> 0, invoked |-> "none", result |-> Raise("HTTP404")]
    ELSE RouteTo(SourceMap(SourceOf(session_id)), session_id, GetProviders(cache, r))

\* the connections the invoked provider leaves open
RouteUnclosed(invoked, session_id) ==
    IF invoked = "cursor" THEN MessagesUnclosed(session_id, kv) ELSE 0

\* the state after get_session did `did`
Answered(session_id, did) ==
    /\ conns + RouteUnclosed(did.invoked, session_id) <= MaxConns
    /\ providers' = did.cache
    /\ detections' = detections + did.ran
    /\ outcome' = did.result
    /\ conns' = conns + RouteUnclosed(did.invoked, session_id)
    /\ call' = [op |-> "get_session", backend |-> did.invoked, arg |-> session_id]

\* GET /api/session/{session_id}
GetSession(session_id) ==
    /\ requests < MaxRequests
    /\ Answered(session_id, GetSessionOf(session_id, providers, roots))
    /\ requests' = requests + 1
    /\ UNCHANGED <<disk, roots>>

\* outside the process: the storage root of a backend is removed with all
\* it holds (the global store of the keyed store lies beside the root and
\* stays); the outcome of the last call described the storage that is gone
RootRemoved(b) ==
    /\ roots[b] = "dir"
    /\ roots' = [roots EXCEPT ![b] = "missing"]
    /\ log' = IF b = "claude_code" THEN <<>> ELSE log
    /\ kv' = IF b = "cursor" THEN NoStore ELSE kv
    /\ tree' = IF b = "opencode" THEN NoTree ELSE tree
    /\ call' = NoCall
    /\ outcome' = Ok(<<>>)
    /\ UNCHANGED <<index, sibling, chatdata, conns, providers, detections, requests>>

\* one session per backend
OneLineLog == <<JsonLine(Record(Lit("user"), JStr(Hi)))>>

OneTabRow ==
    JsonRow(JObj([k \in {"tabs"} |-> JArr(<<Tab("t1", <<Bubble("user", JStr(<<"p">>))>>)>>)]))

OneSessionTree ==
    [session |-> SessionFile("ses1", <<"t">>),
     messages |-> <<MsgFile(Descriptor("m1", "user", <<"t">>, "", "", JNum(1)), NoParts)>>]

\* the id of each stored session, the same with the tag of another backend
\* or an unknown tag, and an id without a separator
ServerIds ==
    {IdOf(<<Lit("cursor"), Lit("w1"), Lit("c1")>>),
     IdOf(<<Lit("cursor"), Lit("global"), Lit("t1")>>),
     IdOf(<<Lit("claude"), Lit("p1"), Lit("s1")>>),
     IdOf(<<Lit("opencode"), Lit("ses1")>>),
     IdOf(<<Lit("claude"), Lit("w1"), Lit("c1")>>),
     IdOf(<<Lit("opencode"), Lit("global"), Lit("t1")>>),
     IdOf(<<Lit("cursor"), Lit("p1"), Lit("s1")>>),
     IdOf(<<Lit("cursor"), Lit("ses1")>>),
     IdOf(<<Lit("vscode"), Lit("p1"), Lit("s1")>>),
     Lit("cursor")}

\* each root is a directory holding one session, or is missing; the global
\* store exists or not whatever the root of the keyed store
InitServer ==
    /\ roots \in [BackendNames -> {"dir", "missing"}]
    /\ log = IF roots["claude_code"] = "dir" THEN OneLineLog ELSE <<>>
    /\ index = NoFile
    /\ sibling = NoDir
    /\ kv = IF roots["cursor"] = "dir" THEN OneComposerStore ELSE NoStore
    /\ chatdata \in {NoFile, OneTabRow}
    /\ tree = IF roots["opencode"] = "dir" THEN OneSessionTree ELSE NoTree
    /\ conns = 0
    /\ providers = None
    /\ detections = 0
    /\ requests = 0
    /\ call = NoCall
    /\ outcome = Ok(<<>>)

NextServer ==
    \/ \E session_id \in ServerIds : GetSession(session_id)
    \/ \E session_id \in ServerIds : CursorGetSessionMessages(session_id)
    \/ \E session_id \in ServerIds : ClaudeGetSessionMessages(session_id)
    \/ \E session_id \in ServerIds : OpenCodeGetSessionMessages(session_id)
    \/ \E b \in BackendNames : RootRemoved(b)

SpecServer == InitServer /\ [][NextServer]_vars

\* ------------------------------------- backends whose root is missing

\* the providers are called directly, on roots that exist or not
NextAbsent ==
    \/ \E session_id \in ServerIds : CursorGetSessionMessages(session_id)
    \/ \E session_id \in ServerIds : ClaudeGetSessionMessages(session_id)
    \/ \E session_id \in ServerIds : OpenCodeGetSessionMessages(session_id)
    \/ \E workspace_id \in GlobalWorkspaceIds : CursorListSessions(workspace_id)
    \/ \E workspace_id \in WorkspaceIds : ClaudeListSessions(workspace_id)
    \/ \E workspace_id \in WorkspaceIds : OpenCodeListSessions(workspace_id)

SpecAbsent == InitServer /\ [][NextAbsent]_vars

\* ------------------------------------------- claims on the log-stream decoder

ClaudeSessionId == IdOf(<<Lit("claude"), Lit("p1"), Lit("s1")>>)

\* the last call decoded the session log: outcome is what _parse_jsonl did
Decoded ==
    /\ call.op = "get_session_messages"
    /\ call.backend = "claude_code"
    /\ call.arg = ClaudeSessionId

\* the log is one line holding one JSON object
OneRecord == Len(log) = 1 /\ log[1].json = "ok" /\ IsDict(log[1].value)

RecordType == Get(log[1].value, "type", JStr(<<>>))

\* the record's message content, when the message is an object
HasContent ==
    /\ "message" \in DOMAIN log[1].value[2]
    /\ IsDict(log[1].value[2]["message"])
    /\ "content" \in DOMAIN log[1].value[2]["message"][2]

RecordContent == log[1].value[2]["message"][2]["content"]

\* list.insert(i - 1, x)
InsertAt(s, i, x) == SubSeq(s, 1, i - 1) \o <<x>> \o SubSeq(s, i, Len(s))

\* C1: no canonical operation of any backend raises, whatever is on disk.
C1_NoOperationRaises == outcome.exc = "none"

\* C3: a record whose type is none of user, human and assistant decodes to
\* exactly zero messages, whatever other fields it carries.
C3_InertRecordYieldsNothing ==
    (/\ Decoded /\ OneRecord
     /\ ~(IsStr(RecordType)
          /\ RecordType[2] \in {Lit("user"), Lit("human"), Lit("assistant")}))
    => outcome = Ok(<<>>)

\* C4: a user or human record whose content is a plain string decodes to no
\* message when the string is blank and otherwise to exactly one user/text
\* message whose content is the string unchanged.
C4_UserStringRecord ==
    (/\ Decoded /\ OneRecord
     /\ IsStr(RecordType) /\ RecordType[2] \in {Lit("user"), Lit("human")}
     /\ HasContent /\ IsStr(RecordContent))
    => /\ outcome.exc = "none"
       /\ IF \A i \in 1..Len(RecordContent[2]) : RecordContent[2][i] \in Whitespace
          THEN outcome.val = <<>>
          ELSE /\ Len(outcome.val) = 1
               /\ outcome.val[1].role = "user"
               /\ outcome.val[1].message_type = "text"
               /\ outcome.val[1].content = RecordContent[2]

IsBlockOfType(block, type) ==
    IsDict(block) /\ JEq(Get(block, "type", JStr(<<>>)), JStr(Lit(type)))

NonBlankTextBlock(block) ==
    /\ IsBlockOfType(block, "text")
    /\ "text" \in DOMAIN block[2] /\ IsStr(block[2]["text"])
    /\ \E i \in 1..Len(block[2]["text"][2]) : block[2]["text"][2][i] \notin Whitespace

\* C5: an assistant record with a non-blank text block and a tool_use block,
\* in any order, puts its one text message first, before every tool_call and
\* thinking message.
C5_TextPrecedesToolCalls ==
    (/\ Decoded /\ OneRecord
     /\ JEq(RecordType, JStr(Lit("assistant")))
     /\ HasContent /\ IsList(RecordContent)
     /\ \E i \in 1..Len(RecordContent[2]) : NonBlankTextBlock(RecordContent[2][i])
     /\ \E i \in 1..Len(RecordContent[2]) : IsBlockOfType(RecordContent[2][i], "tool_use"))
    => /\ outcome.exc = "none"
       /\ Len(outcome.val) >= 2
       /\ outcome.val[1].role = "assistant" /\ outcome.val[1].message_type = "text"
       /\ \A i \in 2..Len(outcome.val) : outcome.val[i].role \in {"tool", "thinking"}
       /\ \E i \in 2..Len(outcome.val) : outcome.val[i].message_type = "tool_call"

FixtureCounts == <<1, 2, 1, 3, 1, 0, 1, 1, 0, 0, 0, 1>>

StoredComposers ==
    LET row == kv["composer.composerData"]
    IN IF row.json = "ok" /\ IsDict(row.value)
          /\ IsList(Get(row.value, "allComposers", JArr(<<>>)))
       THEN {c \in {Get(row.value, "allComposers", JArr(<<>>))[2][i] :
                      i \in 1..Len(Get(row.value, "allComposers", JArr(<<>>))[2])} :
               IsDict(c)}
       ELSE {}

ComposersNamed(composer_id) ==
    {c \in StoredComposers : JEq(Get(c, "composerId", JNull), JStr(composer_id))}

CursorSessionId(composer_id) == IdOf(<<Lit("cursor"), Lit("w1"), composer_id>>)

\* the last call asked the keyed-store backend for the messages of a session
\* whose composer the store holds
AskedStored(composer_id) ==
    /\ call.op = "get_session_messages"
    /\ call.backend = "cursor"
    /\ call.arg = CursorSessionId(composer_id)
    /\ ComposersNamed(composer_id) # {}

TheComposer(composer_id) == CHOOSE c \in ComposersNamed(composer_id) : TRUE

ComposerIds == {Lit("c1"), Lit("c2")}

\* the store holds a prompt list and a generation list (or none at all)
HoldsLists == ~Raised(ReadPrompts(kv)) /\ ~Raised(ReadGenerations(kv))

\* C2: get_session_messages returns an empty list and does not raise when
\* the id is malformed or names a workspace or session that is not on disk.
C2_BadIdYieldsEmpty ==
    (/\ call.op = "get_session_messages"
     /\ call.backend = "cursor"
     /\ \A composer_id \in ComposerIds : ~AskedStored(composer_id))
    => outcome = Ok(<<>>)

\* the range test in the words of the claim
Within(ts, T0, T1) == (T0 = JNull \/ T0[2] <= ts[2]) /\ (T1 = JNull \/ ts[2] <= T1[2])

HasTime(gen) == Get(gen, "unixMs", JNull) # JNull

\* the generation shows in the result as an assistant message at its time
Shown(gen) ==
    \E i \in 1..Len(outcome.val) :
        /\ outcome.val[i].role = "assistant"
        /\ outcome.val[i].timestamp = MsToDatetime(Get(gen, "unixMs", JNull))
        /\ outcome.val[i].content = Get(gen, "textDescription", JStr(<<>>))[2]

\* C8: a generation with timestamp ts is attributed to a session created at
\* T0 and updated at T1 exactly when T0 <= ts <= T1, both ends included; an
\* absent bound leaves its side open.
C8_AttributionIsInclusiveRange ==
    \A composer_id \in ComposerIds :
        (AskedStored(composer_id) /\ HoldsLists) =>
            LET target == TheComposer(composer_id)
                T0 == Get(target, "createdAt", JNull)
                T1 == Get(target, "lastUpdatedAt", JNull)
                generations == ReadGenerations(kv).val
                session_gens == SessionGens(generations, target)
            IN \A k \in 1..Len(generations) :
                  HasTime(generations[k]) =>
                    LET gen == generations[k]
                        ts == Get(gen, "unixMs", JNull)
                    IN /\ (\E i \in 1..Len(session_gens) : session_gens[i] = gen)
                            <=> Within(ts, T0, T1)
                       /\ (/\ JEq(Get(gen, "type", JNull), JStr(Lit("composer")))
                           /\ Truthy(Get(gen, "textDescription", JStr(<<>>))))
                          => (Shown(gen) <=> Within(ts, T0, T1))

\* a session created at 2 and updated at 3 is given the generation at 3 and
\* not the one at 4
C8_Witness ==
    /\ AskedStored(Lit("c1")) /\ HoldsLists
    /\ Get(TheComposer(Lit("c1")), "createdAt", JNull) = JNum(2)
    /\ Get(TheComposer(Lit("c1")), "lastUpdatedAt", JNull) = JNum(3)
    /\ ReadGenerations(kv).val
         = <<Gen(JNum(4), "composer", <<"b">>), Gen(JNum(3), "composer", <<"a">>)>>
    /\ Shown(Gen(JNum(3), "composer", <<"a">>))
    /\ ~Shown(Gen(JNum(4), "composer", <<"b">>))

\* the latest timestamp of the inputs
MaxTs == 4

\* the generations with timestamp t, in the order of the store
At(gens, t) ==
    LET IsAt(gen) == Get(gen, "unixMs", JNull) = JNum(t) IN SelectSeq(gens, IsAt)

\* ascending timestamp order, equal timestamps in the order of the store
RECURSIVE Ascending(_, _)
Ascending(gens, t) ==
    IF t > MaxTs THEN <<>> ELSE At(gens, t) \o Ascending(gens, t + 1)

\* the generations the words of C8 give to the composer, in ascending order
Attributed(target) ==
    LET Belongs(gen) ==
            /\ HasTime(gen)
            /\ Within(Get(gen, "unixMs", JNull), Get(target, "createdAt", JNull),
                      Get(target, "lastUpdatedAt", JNull))
    IN Ascending(SelectSeq(ReadGenerations(kv).val, Belongs), 0)

IsComposerGen(gen) == JEq(Get(gen, "type", JNull), JStr(Lit("composer")))

Summary(gen) == Get(gen, "textDescription", JStr(<<>>))[2]

\* role and content of the messages the claim lists: the i-th generation
\* gives the i-th prompt, while prompts remain, and then its summary (every
\* summary, or only the non-empty ones); the remaining prompts follow
RECURSIVE Listed(_, _, _, _)
Listed(gens, prompts, i, every) ==
    IF gens = <<>>
    THEN [k \in 1..(IF i > Len(prompts) THEN 0 ELSE Len(prompts) - i + 1) |->
            <<"user", prompts[i + k - 1]>>]
    ELSE (IF i <= Len(prompts) THEN <<<<"user", prompts[i]>>>> ELSE <<>>)
         \o (IF every \/ Summary(Head(gens)) # <<>>
             THEN <<<<"assistant", Summary(Head(gens))>>>> ELSE <<>>)
         \o Listed(Tail(gens), prompts, i + 1, every)

RoleAndContent(messages) ==
    [i \in 1..Len(messages) |-> <<messages[i].role, messages[i].content>>]

\* the prompts left over once each of n generations has taken one
LeftOver(n) ==
    LET prompts == ReadPrompts(kv).val
    IN IF n >= Len(prompts) THEN 0 ELSE Len(prompts) - n

\* the last n messages carry no timestamp
TrailingUntimed(n) ==
    \A i \in 1..Len(outcome.val) :
        i > Len(outcome.val) - n => outcome.val[i].timestamp = None

\* C9, as claimed: for a session whose composer exists, the result is, for
\* the attributed generations in ascending timestamp order, the i-th prompt
\* as a user message followed by the i-th generation's summary as an
\* assistant message, and then every remaining prompt as a user message with
\* no timestamp.
C9_EveryGenerationAnswers ==
    \A composer_id \in ComposerIds :
        (AskedStored(composer_id) /\ HoldsLists) =>
            LET gens == Attributed(TheComposer(composer_id))
            IN /\ outcome.exc = "none"
               /\ RoleAndContent(outcome.val)
                    = Listed(gens, ReadPrompts(kv).val, 1, TRUE)
               /\ TrailingUntimed(LeftOver(Len(gens)))

\* C9, amended: only the attributed generations of type composer take part,
\* and a generation's summary becomes an assistant message only when it is
\* not empty.
C9_ComposerGenerationsAnswer ==
    \A composer_id \in ComposerIds :
        (AskedStored(composer_id) /\ HoldsLists) =>
            LET gens == SelectSeq(Attributed(TheComposer(composer_id)), IsComposerGen)
            IN /\ outcome.exc = "none"
               /\ RoleAndContent(outcome.val)
                    = Listed(gens, ReadPrompts(kv).val, 1, FALSE)
               /\ TrailingUntimed(LeftOver(Len(gens)))

\* two attributed generations stored out of order, one of another type: the
\* result is prompt p, summary a of the composer generation, prompt q untimed
C9_Witness ==
    /\ AskedStored(Lit("c1")) /\ HoldsLists
    /\ ReadGenerations(kv).val
         = <<Gen(JNum(3), "composer", <<"a">>), Gen(JNum(1), "cmdk", <<"b">>)>>
    /\ ReadPrompts(kv).val = <<<<"p">>, <<"q">>>>
    /\ Get(TheComposer(Lit("c1")), "createdAt", JNull) = JNull
    /\ RoleAndContent(outcome.val)
         = <<<<"user", <<"p">>>>, <<"assistant", <<"a">>>>, <<"user", <<"q">>>>>>
    /\ outcome.val[1].timestamp = MsToDatetime(JNum(3))
    /\ outcome.val[3].timestamp = None

\* the session the listing made of a composer
ListedComposer(session) ==
    CHOOSE c \in StoredComposers :
        session.id = CursorSessionId(Get(c, "composerId", JStr(<<>>))[2])

\* C10: the message_count that list_sessions reports for a workspace session
\* is the number of generations that message reconstruction attributes to
\* that session, also for generations without a timestamp and composers with
\* no bounds.
C10_CountIsAttributedGenerations ==
    (call.op = "list_sessions" /\ outcome.exc = "none") =>
        \A i \in 1..Len(outcome.val) :
            outcome.val[i].message_count
              = Len(SessionGens(ReadGenerations(kv).val, ListedComposer(outcome.val[i])))

\* ----------------------------------------- claims on the global chat store

\* the tabs the chat store holds, when it holds a list of tab objects
StoredTabs ==
    IF chatdata.json = "ok" /\ IsDict(chatdata.value)
       /\ IsList(Get(chatdata.value, "tabs", JArr(<<>>)))
       /\ \A i \in 1..Len(Get(chatdata.value, "tabs", JArr(<<>>))[2]) :
             IsDict(Get(chatdata.value, "tabs", JArr(<<>>))[2][i])
    THEN Get(chatdata.value, "tabs", JArr(<<>>))[2]
    ELSE <<>>

HasTab(tab_id) ==
    \E i \in 1..Len(StoredTabs) : Get(StoredTabs[i], "tabId", JNull) = JStr(tab_id)

\* the first tab of that id
TheTab(tab_id) ==
    StoredTabs[CHOOSE i \in 1..Len(StoredTabs) :
                 /\ Get(StoredTabs[i], "tabId", JNull) = JStr(tab_id)
                 /\ \A j \in 1..(i - 1) : Get(StoredTabs[j], "tabId", JNull) # JStr(tab_id)]

TabIds == {Lit("t1"), Lit("t2")}

AskedTab(tab_id) ==
    /\ call.op = "get_session_messages"
    /\ call.backend = "cursor"
    /\ call.arg = IdOf(<<Lit("cursor"), Lit("global"), tab_id>>)
    /\ HasTab(tab_id)

\* C11: for a cursor:global:<tab> session the result holds one message per
\* bubble of the tab, in bubble order: content the bubble's text, type text,
\* role user for a bubble of type user and assistant for every other bubble.
C11_OneMessagePerBubble ==
    \A tab_id \in TabIds :
        AskedTab(tab_id) =>
            LET bubbles == Get(TheTab(tab_id), "bubbles", JArr(<<>>))[2]
            IN /\ outcome.exc = "none"
               /\ Len(outcome.val) = Len(bubbles)
               /\ \A i \in 1..Len(bubbles) :
                     /\ outcome.val[i].content = Get(bubbles[i], "text", JStr(<<>>))[2]
                     /\ outcome.val[i].message_type = "text"
                     /\ outcome.val[i].role
                          = IF Get(bubbles[i], "type", JNull) = JStr(Lit("user"))
                            THEN "user" ELSE "assistant"

\* a tab of a user bubble and a bubble without a type: user, then assistant
C11_Witness ==
    /\ AskedTab(Lit("t1"))
    /\ Get(TheTab(Lit("t1")), "bubbles", JArr(<<>>))[2]
         = <<Bubble("user", JStr(<<"p">>)), Bubble("", JStr(<<"q">>))>>
    /\ Len(outcome.val) = 2
    /\ outcome.val[1].role = "user" /\ outcome.val[1].content = <<"p">>
    /\ outcome.val[2].role = "assistant" /\ outcome.val[2].content = <<"q">>

\* ------------------------------------------ claims on the directory-tree decoder

\* get_session_messages of the directory-tree backend was called on ses_1
AskedSes1 ==
    /\ call.op = "get_session_messages"
    /\ call.backend = "opencode"
    /\ call.arg = IdOf(<<Lit("opencode"), Lit("ses1")>>)

\* a readable descriptor without part directory and without summary.title
LegacyUntitled(file) ==
    /\ file.json = "ok"
    /\ IsDict(file.value)
    /\ ~file.parts.dir
    /\ ~Truthy(Get(Get(file.value, "summary", EmptyObj), "title", JStr(<<>>)))

RoleIs(file, role) == JEq(Get(file.value, "role", JStr(Lit("user"))), JStr(Lit(role)))

\* C12: every message the directory-tree decoder returns has content that is
\* not blank; a descriptor without part directory and without summary.title
\* still yields a non-empty notice, for a user message and for an assistant
\* message with neither mode nor finish.
C12_NoBlankMessage ==
    (AskedSes1 /\ outcome.exc = "none") =>
        \A i \in 1..Len(outcome.val) : Strip(outcome.val[i].content) # <<>>

\* the case the claim names reaches the caller with empty content
C12_BlankLegacyUser ==
    /\ AskedSes1
    /\ tree.messages = <<MsgFile(Descriptor("m1", "user", <<>>, "", "", JNum(1)), NoParts)>>
    /\ Len(outcome.val) = 1
    /\ outcome.val[1].content = <<>>

\* sub occurs in s as a run of consecutive characters
Contains(s, sub) ==
    \E i \in 0..(Len(s) - Len(sub)) : SubSeq(s, i + 1, i + Len(sub)) = sub

UpperCase == <<"A", "B", "C", "D", "E", "F", "G", "H", "I", "J", "K", "L", "M",
               "N", "O", "P", "Q", "R", "S", "T", "U", "V", "W", "X", "Y", "Z">>
LowerCase == <<"a", "b", "c", "d", "e", "f", "g", "h", "i", "j", "k", "l", "m",
               "n", "o", "p", "q", "r", "s", "t", "u", "v", "w", "x", "y", "z">>

\* str.lower() on the letters A..Z
Lower(s) ==
    [i \in 1..Len(s) |->
        IF \E k \in 1..26 : UpperCase[k] = s[i]
        THEN LowerCase[CHOOSE k \in 1..26 : UpperCase[k] = s[i]] ELSE s[i]]

\* the one message file of ses_1 is a legacy assistant descriptor without
\* summary.title, and get_session_messages has been called on ses_1
AskedLegacyAssistant ==
    /\ AskedSes1
    /\ Len(tree.messages) = 1
    /\ LegacyUntitled(tree.messages[1])
    /\ RoleIs(tree.messages[1], "assistant")

\* C13: a legacy assistant message without part directory and without
\* summary.title is returned with content that says the content is not
\* available ("not available", in any case) and names v1.0.
C13_LegacyAssistantNotice ==
    AskedLegacyAssistant =>
        /\ outcome.exc = "none"
        /\ Len(outcome.val) = 1
        /\ Contains(Lower(outcome.val[1].content), Lit("not available"))
        /\ Contains(outcome.val[1].content, Lit("v1.0"))

\* the repository's legacy fixture message: mode and finish, and no notice
C13_FixtureHasNoNotice ==
    /\ AskedLegacyAssistant
    /\ Get(tree.messages[1].value, "mode", JNull) = JStr(Lit("code"))
    /\ Get(tree.messages[1].value, "finish", JNull) = JStr(Lit("stop"))
    /\ outcome.val[1].content = Lit("[") \o Lit("mode: ") \o Lit("code") \o Lit(", ")
                                 \o Lit("finish: ") \o Lit("stop") \o Lit("]")

\* C14: a legacy descriptor without part directory and without summary.title,
\* of role assistant and with non-empty mode and finish, yields non-empty
\* content that contains the mode value and the finish value.
C14_ModeAndFinishShown ==
    (/\ AskedLegacyAssistant
     /\ Truthy(Get(tree.messages[1].value, "mode", JStr(<<>>)))
     /\ Truthy(Get(tree.messages[1].value, "finish", JStr(<<>>)))) =>
        /\ outcome.exc = "none"
        /\ Len(outcome.val) = 1
        /\ outcome.val[1].content # <<>>
        /\ Contains(outcome.val[1].content,
                    PyStr(Get(tree.messages[1].value, "mode", JStr(<<>>))))
        /\ Contains(outcome.val[1].content,
                    PyStr(Get(tree.messages[1].value, "finish", JStr(<<>>))))

\* mode code and finish stop: the content holds "code" and "stop"
C14_Witness ==
    /\ AskedLegacyAssistant
    /\ Get(tree.messages[1].value, "mode", JNull) = JStr(Lit("code"))
    /\ Get(tree.messages[1].value, "finish", JNull) = JStr(Lit("stop"))
    /\ Len(outcome.val) = 1
    /\ Contains(outcome.val[1].content, Lit("code"))
    /\ Contains(outcome.val[1].content, Lit("stop"))

\* the created field of a message file, -1 when it has none
CreatedMs(file) ==
    LET created == Get(Get(file.value, "time", EmptyObj), "created", JNull)
    IN IF created = JNull THEN -1 ELSE created[2]

\* the readable message files of ses_1, in file-name order
Readable == SelectSeq(tree.messages, LAMBDA file : file.json = "ok")

\* C15: get_session_messages of the directory-tree decoder returns the
\* messages in non-decreasing order of their created timestamp, whatever
\* timestamps the message files carry and whatever their file-name order: a
\* message without timestamp comes first, and the result is a rearrangement of
\* the messages of the readable files.
C15_SortedByCreated ==
    (AskedSes1 /\ outcome.exc = "none") =>
        /\ \A i \in 1..Len(outcome.val), j \in 1..Len(outcome.val) :
              i < j => TimeKey(outcome.val[i].timestamp) <= TimeKey(outcome.val[j].timestamp)
        /\ Len(outcome.val) = Len(Readable)
        /\ \A ms \in {CreatedMs(Readable[k]) : k \in 1..Len(Readable)} :
              Cardinality({i \in 1..Len(outcome.val) : TimeKey(outcome.val[i].timestamp) = ms})
                = Cardinality({k \in 1..Len(Readable) : CreatedMs(Readable[k]) = ms})

\* file-name order is created 3 then created 1: the result is turned round
C15_Witness ==
    /\ AskedSes1
    /\ Len(tree.messages) = 2
    /\ tree.messages[1].json = "ok" /\ tree.messages[2].json = "ok"
    /\ CreatedMs(tree.messages[1]) = 3
    /\ CreatedMs(tree.messages[2]) = 1
    /\ Len(outcome.val) = 2
    /\ TimeKey(outcome.val[1].timestamp) = 1
    /\ TimeKey(outcome.val[2].timestamp) = 3

\* a readable part file of type step-start
IsStepStart(row) ==
    /\ row.json = "ok"
    /\ IsDict(row.value)
    /\ JEq(Get(row.value, "type", JStr(Lit("text"))), JStr(Lit("step-start")))

\* the storage root with the step-start part files taken out of every part
\* directory
WithoutStepStart(root) ==
    [root EXCEPT !.messages =
        [i \in 1..Len(root.messages) |->
            [root.messages[i] EXCEPT !.parts.files =
                SelectSeq(root.messages[i].parts.files, LAMBDA row : ~IsStepStart(row))]]]

HasStepStart ==
    \E i \in 1..Len(tree.messages) :
        \E k \in 1..Len(tree.messages[i].parts.files) :
            IsStepStart(tree.messages[i].parts.files[k])

\* C16: step-start part files never surface: the messages returned (content,
\* message_type and metadata of each) are those returned when the step-start
\* part files are not in the part directories.
C16_StepStartSkipped ==
    AskedSes1 => outcome = OpenCodeSessionMessages(call.arg, WithoutStepStart(tree))

\* a step-start part that carries a text, before a text part: only the text
\* part shows
C16_Witness ==
    /\ AskedSes1
    /\ Len(tree.messages) = 1
    /\ tree.messages[1].parts.files = <<StepStartPart, TextPart(<<"a">>)>>
    /\ HasStepStart
    /\ Len(outcome.val) = 1
    /\ outcome.val[1].content = <<"a">>
    /\ outcome.val[1].message_type = "text"

\* ------------------------------------------------ claims on session listing

\* list_sessions of some backend has returned
SessionsListed == call.op = "list_sessions" /\ outcome.exc = "none"

\* the ':'-separated segments of an id
Segments(id) == Split(id, ":", Len(id))

\* the id text begins with the given text
StartsWith(s, prefix) == Len(s) >= Len(prefix) /\ SubSeq(s, 1, Len(prefix)) = prefix

\* the tag a backend puts in front of its ids
TagOf(backend) ==
    CASE backend = "cursor" -> Lit("cursor")
      [] backend = "claude_code" -> Lit("claude")
      [] backend = "opencode" -> Lit("opencode")

C18_TitleAtMost80 ==
    SessionsListed =>
        \A i \in 1..Len(outcome.val) : Len(outcome.val[i].title) <= TitleMax

\* The failing inputs: a composer whose name, or a session file whose title,
\* is longer than 80 characters is listed with that title uncut.
C18_LongNameListed ==
    /\ SessionsListed
    /\ call.backend \in {"cursor", "opencode"}
    /\ \E i \in 1..Len(outcome.val) : outcome.val[i].title = LongText

\* ------------------------------------------- claims on the provider registry

\* the backends whose construction and probe succeed on a directory, in the
\* fixed order
ExpectedProviders(r) ==
    SelectSeq(<<"cursor", "claude_code", "opencode">>, LAMBDA b : r[b] = "dir")

Detected == call.op = "get_available_providers"

\* C19: for every subset of backends whose construction or is_available check
\* raises, get_available_providers returns without raising exactly the
\* remaining backends whose is_available is true, in the order cursor,
\* claude_code, opencode.
C19_FailuresIsolated ==
    Detected => outcome = Ok(ExpectedProviders(call.arg))

\* the first backend fails its probe and the other two are still returned
C19_Witness ==
    /\ Detected
    /\ call.arg["cursor"] \in {"ctor_raises", "check_raises"}
    /\ call.arg["claude_code"] = "dir"
    /\ call.arg["opencode"] = "dir"
    /\ outcome = Ok(<<"claude_code", "opencode">>)

\* C20: the provider snapshot is derived at most once per process: detection
\* runs on the first request only, also when it finds no backend, and every
\* later request is answered with the same list whatever happens to the roots.
C20_DetectedOnce ==
    [][/\ providers # None => providers' = providers /\ detections' = detections
       /\ requests' > requests =>
              /\ detections' = detections + (IF requests = 0 THEN 1 ELSE 0)
              /\ providers' # None
              /\ outcome' = Ok(providers'[2])
       /\ detections' <= 1]_vars

\* a later request, made when the cursor root has become a directory, is
\* still answered with the empty list detected by the first request
C20_Witness ==
    /\ call.op = "get_sources"
    /\ requests >= 2
    /\ detections = 1
    /\ providers = Cached(<<>>)
    /\ call.arg["cursor"] = "dir"
    /\ outcome = Ok(<<>>)

\* ------------------------------- further claims on the log-stream decoder

\* the texts of the non-blank text blocks of a block sequence, in order
RECURSIVE TextsOf(_)
TextsOf(blocks) ==
    IF blocks = <<>> THEN <<>>
    ELSE (IF NonBlankTextBlock(Head(blocks)) THEN <<Head(blocks)[2]["text"][2]>> ELSE <<>>)
         \o TextsOf(Tail(blocks))

ToolResults(blocks) == SelectSeq(blocks, LAMBDA b : IsBlockOfType(b, "tool_result"))

UserBlockRecord ==
    /\ Decoded /\ OneRecord
    /\ IsStr(RecordType) /\ RecordType[2] \in {Lit("user"), Lit("human")}
    /\ HasContent /\ IsList(RecordContent)

\* C26: a user/human record whose content is a block sequence decodes to the
\* one user/text message joining its non-blank text blocks by newline, first
\* (if there is such a block), followed by one tool_result message per
\* tool_result block in block order, wherever the text blocks sit.
C26_TextThenToolResults ==
    UserBlockRecord =>
        LET texts == TextsOf(RecordContent[2])
            results == ToolResults(RecordContent[2])
            k == IF texts = <<>> THEN 0 ELSE 1
        IN /\ outcome.exc = "none"
           /\ Len(outcome.val) = k + Len(results)
           /\ k = 1 => /\ outcome.val[1].role = "user"
                       /\ outcome.val[1].message_type = "text"
                       /\ outcome.val[1].content = Join(texts, <<"\n">>)
           /\ \A i \in 1..Len(results) :
                 /\ outcome.val[k + i].message_type = "tool_result"
                 /\ outcome.val[k + i].metadata["tool_use_id"]
                        = Get(results[i], "tool_use_id", JStr(<<>>))

\* the failing inputs: a block sequence that ends the decoding with an
\* exception, and bare strings that become a user message without a text block
C26_BlockRecordRaises == UserBlockRecord /\ outcome.exc # "none"

C26_BareStringsJoined ==
    /\ UserBlockRecord /\ outcome.exc = "none"
    /\ TextsOf(RecordContent[2]) = <<>>
    /\ Len(outcome.val) = 1 /\ outcome.val[1].message_type = "text"

AllWhitespace(s) == \A i \in 1..Len(s) : s[i] \in Whitespace

\* C27: no message the log-stream decoder emits has blank or whitespace-only
\* content, whatever the record: text, thinking, tool_use (also with an empty
\* tool name) and tool_result blocks (also with a whitespace-only result).
C27_NoBlankContent ==
    (Decoded /\ outcome.exc = "none") =>
        \A i \in 1..Len(outcome.val) : ~AllWhitespace(outcome.val[i].content)

\* the failing inputs: a tool_use block with an empty name, and a tool_result
\* whose result string is whitespace
C27_EmptyToolName ==
    /\ Decoded /\ outcome.exc = "none"
    /\ \E i \in 1..Len(outcome.val) :
          outcome.val[i].message_type = "tool_call" /\ outcome.val[i].content = <<>>

C27_WhitespaceResult ==
    /\ Decoded /\ outcome.exc = "none"
    /\ \E i \in 1..Len(outcome.val) :
          /\ outcome.val[i].message_type = "tool_result"
          /\ outcome.val[i].content # <<>> /\ AllWhitespace(outcome.val[i].content)

\* what the lines from i on give when each is decoded on its own: the first
\* exception, else the outputs one after the other
RECURSIVE PerRecord(_)
PerRecord(i) ==
    IF i > Len(log) THEN Ok(<<>>)
    ELSE LET here == IF log[i].json = "ok" THEN EntryToMessages(log[i].value) ELSE Ok(<<>>)
             rest == PerRecord(i + 1)
         IN IF Raised(here) THEN here
            ELSE IF Raised(rest) THEN rest
            ELSE Ok(here.val \o rest.val)

\* C30: the log-stream decoder keeps line order and never sorts by timestamp:
\* the result is the per-record outputs one after the other, so every message
\* of line i precedes every message of a later line j.
C30_LineOrderKept == Decoded => outcome = PerRecord(1)

\* two records in the log, the first with the later timestamp, both decoded
C30_Witness ==
    /\ Decoded /\ outcome.exc = "none"
    /\ Len(log) = 2 /\ Len(outcome.val) = 2
    /\ outcome.val[1].timestamp # None /\ outcome.val[2].timestamp # None
    /\ Earlier(outcome.val[2].timestamp, outcome.val[1].timestamp)
    /\ outcome.val[1].content = <<"o", "k">> /\ outcome.val[2].content = Yo

\* ---------------------------------- further claims on the keyed-store decoder

UserContents(messages) ==
    LET users == SelectSeq(messages, LAMBDA m : m.role = "user")
    IN [i \in 1..Len(users) |-> users[i].content]

ListedGlobal ==
    IF SessionsListed /\ call.backend = "cursor"
    THEN SelectSeq(outcome.val, LAMBDA s : s.workspace_id = Lit("global"))
    ELSE <<>>

\* C29: for every global session that list_sessions returns for the
\* keyed-store backend, message_count equals the number of messages that
\* get_session_messages returns for that session's id, also when two tabs of
\* the chat store share the same tabId.
C29_CountIsMessageCount ==
    \A i \in 1..Len(ListedGlobal) :
        LET got == CursorSessionMessages(ListedGlobal[i].id, kv)
        IN /\ got.exc = "none"
           /\ ListedGlobal[i].message_count = Len(got.val)

\* two tabs share the id t1: both are listed, the second with its own two
\* bubbles, and the id gives the one bubble of the first
C29_SharedTabId ==
    /\ Len(ListedGlobal) = 2
    /\ ListedGlobal[1].id = ListedGlobal[2].id
    /\ ListedGlobal[1].message_count = 1
    /\ ListedGlobal[2].message_count = 2
    /\ Len(CursorSessionMessages(ListedGlobal[2].id, kv).val) = 1

\* ------------------------------------------ further claims on the listings

\* list_sessions() of the backend that was called, on the same storage
UnfilteredSessions ==
    CASE call.backend = "claude_code" -> ClaudeSessions(<<>>, index, log)
      [] call.backend = "cursor" -> CursorSessions(<<>>, kv)
      [] call.backend = "opencode" -> OpenCodeSessions(<<>>, tree)
      [] OTHER -> Ok(<<>>)

\* C22: for every backend and every workspace id w, list_sessions(w) returns
\* only sessions whose workspace_id equals w, and exactly those sessions of
\* list_sessions() whose workspace_id equals w.
C22_FilteredByWorkspace ==
    (SessionsListed /\ call.arg # <<>>) =>
        /\ \A i \in 1..Len(outcome.val) : outcome.val[i].workspace_id = call.arg[1]
        /\ UnfilteredSessions.exc = "none"
        /\ outcome.val = SelectSeq(UnfilteredSessions.val,
                                   LAMBDA s : s.workspace_id = call.arg[1])

\* the keyed-store backend asked for workspace w1 returns a session of the
\* global store, whose workspace_id is global
C22_GlobalInWorkspace ==
    /\ SessionsListed /\ call.backend = "cursor" /\ call.arg = <<Lit("w1")>>
    /\ \E i \in 1..Len(outcome.val) : outcome.val[i].workspace_id = Lit("global")

\* ------------------------------------------- claims on the connections

\* C24: every connection to the embedded relational store is closed before
\* the operation that opened it returns, on the success path and on every
\* failure path (e.g. the query raising because the table is missing): after
\* any sequence of canonical operations, no connection remains open.
C24_NoConnectionLeftOpen == conns = 0

\* the global store has no ItemTable: get_session_messages has returned the
\* empty list and its connection is still open
C24_OpenAfterMissingTable ==
    /\ chatdata = QueryRaises
    /\ call.op = "get_session_messages"
    /\ call.arg = IdOf(<<Lit("cursor"), Lit("global"), Lit("t1")>>)
    /\ outcome = Ok(<<>>)
    /\ conns = 1

\* on the success path nothing stays open
C24_ClosedOnSuccess ==
    (kv \in {NoStore, OneComposerStore} /\ chatdata # QueryRaises) => conns = 0

\* ------------------------------------- claims on the log-stream listing

\* sessions-index.json of p1 cannot be read or parsed
IndexBroken == index.json \in {"bad", "undecodable", "unreadable"}

ClaudeListed == call.op = "list_sessions" /\ call.backend = "claude_code"

\* C23: in the log-stream backend, a workspace directory whose
\* sessions-index.json cannot be read or parsed contributes zero sessions and
\* raises nothing, and list_sessions() still returns every session of every
\* sibling workspace exactly as if the broken workspace were absent.
C23_BrokenIndexIsolated ==
    (ClaudeListed /\ IndexBroken) =>
        /\ call.arg = <<Lit("p1")>> => outcome = Ok(<<>>)
        /\ call.arg = <<>> => outcome = ProjectSessions(<<Lit("p2")>>, index, log)

\* the index of p1 is not UTF-8 and p2 holds a session: list_sessions()
\* raises and the session of p2 is not returned
C23_UndecodableIndexRaises ==
    /\ ClaudeListed /\ call.arg = <<>>
    /\ index = Undecodable
    /\ ProjectSessions(<<Lit("p2")>>, index, log).exc = "none"
    /\ Len(ProjectSessions(<<Lit("p2")>>, index, log).val) = 1
    /\ outcome = Raise("UnicodeDecodeError")

\* an index that is not JSON, or cannot be opened, is isolated as claimed
C23_CaughtErrorsIsolated ==
    (ClaudeListed /\ index.json \in {"bad", "unreadable"}) =>
        /\ call.arg = <<Lit("p1")>> => outcome = Ok(<<>>)
        /\ call.arg = <<>> => outcome = ProjectSessions(<<Lit("p2")>>, index, log)

\* ------------------------------- claims on backends that are not available

\* a list or get operation was called on a backend whose is_available is
\* false
CalledUnavailable ==
    /\ call.op \in {"list_sessions", "get_session_messages"}
    /\ ~BaseIsDir(call.backend)

\* the keyed-store backend was asked for a tab the global store holds
GlobalTabAsked == \E tab_id \in TabIds : AskedTab(tab_id)

\* C21 as stated: when a backend's is_available is false, every list and
\* get operation of that backend returns an empty collection, including
\* get_session_messages of the keyed-store backend for a cursor:global:<tab>
\* id while the global store file exists.
C21_EmptyWhenUnavailable ==
    CalledUnavailable => outcome = Ok(<<>>)

\* every other list and get operation of a backend that is not available
\* returns an empty collection
C21_OnlyGlobalReadDiverges ==
    (CalledUnavailable /\ ~GlobalTabAsked) => outcome = Ok(<<>>)

\* the root of the keyed store is missing, the global store holds tab t1,
\* and get_session_messages returns its message
C21_GlobalReadWithoutRoot ==
    /\ CalledUnavailable
    /\ AskedTab(Lit("t1"))
    /\ Len(outcome.val) = 1
    /\ outcome.val[1].content = <<"p">>

\* the roots of the other backends are missing and their operations return
\* empty collections
C21_OthersEmpty ==
    /\ CalledUnavailable
    /\ call.backend = "claude_code"
    /\ call.op = "get_session_messages"
    /\ call.arg = ClaudeSessionId
    /\ outcome = Ok(<<>>)

\* ------------------------------------------- claims on the session route

\* the text of an id before its first separator, empty when it has none
LeadingTag(session_id) ==
    IF \E i \in 1..Len(session_id) : session_id[i] = ":"
    THEN SubSeq(session_id, 1,
                (CHOOSE i \in 1..Len(session_id) :
                    /\ session_id[i] = ":"
                    /\ \A j \in 1..(i - 1) : session_id[j] # ":") - 1)
    ELSE <<>>

\* the tag of the ids of a backend
OwnTag(b) ==
    CASE b = "cursor" -> Lit("cursor")
      [] b = "claude_code" -> Lit("claude")
      [] b = "opencode" -> Lit("opencode")

\* the backend a tag belongs to
OwnerOf(tag) ==
    IF \E b \in BackendNames : OwnTag(b) = tag
    THEN CHOOSE b \in BackendNames : OwnTag(b) = tag
    ELSE "none"

\* the provider is in the snapshot the server holds
InSnapshot(b) ==
    /\ providers # None
    /\ \E i \in 1..Len(providers[2]) : providers[2][i] = b

\* C25: the leading tag of a session id determines the one backend that is
\* invoked: the HTTP layer maps cursor, claude and opencode to the cursor,
\* claude_code and opencode providers, answers 404 without invoking any
\* provider when the tag is unknown or its provider is not in the snapshot,
\* and no provider returns messages for an id carrying another backend's tag.
C25_TagSelectsProvider ==
    /\ call.op = "get_session" =>
          IF OwnerOf(LeadingTag(call.arg)) = "none"
             \/ ~InSnapshot(OwnerOf(LeadingTag(call.arg)))
          THEN call.backend = "none" /\ outcome = Raise("HTTP404")
          ELSE /\ call.backend = OwnerOf(LeadingTag(call.arg))
               /\ outcome = Respond(call.arg,
                                    ProviderMessages(OwnerOf(LeadingTag(call.arg)),
                                                     call.arg))
    /\ (call.op = "get_session_messages"
        /\ OwnTag(call.backend) # LeadingTag(call.arg)) => outcome = Ok(<<>>)

\* the log-stream session was asked for through the route: the claude_code
\* provider was invoked and its message is in the response
C25_Witness ==
    /\ call.op = "get_session"
    /\ call.arg = ClaudeSessionId
    /\ call.backend = "claude_code"
    /\ outcome.exc = "none"
    /\ Len(outcome.val[2]) = 1
    /\ outcome.val[2][1].role = "user"

====
